---- MODULE Spec2Model ----
(***************************************************************************)
(* Account orchestration of the check-in run: CheckIn.execute             *)
(* (src/checkin.py), the per-method flows check_in_with_cookies and        *)
(* check_in_with_github / check_in_with_linuxdo, the bypass acquirers,    *)
(* and the result handling of main (src/main.py).                         *)
(*                                                                         *)
(* External outcomes (what a browser session or an HTTP call returns, or  *)
(* whether it raises) are inputs, drawn with \E at the step that reads    *)
(* them.  Header sets are abstracted to the two parts the fingerprint     *)
(* logic reads: the User-Agent (ua) and the presence/value of the         *)
(* sec-ch-ua* Client-Hint group (ch, "none" when the keys are absent).    *)
(***************************************************************************)
EXTENDS Integers, Sequences, FiniteSets, TLC

\* ------------------------------------------------------------------ bounds
MaxGithub == 2
MaxLinuxdo == 1
MaxTopups == 2
MaxMethods == 3
\* The longest producer sequence execute_topup is run on.
MaxProducer == 3
\* The longest cookie list filter_cookies is run on.
MaxCookies == 2

\* ------------------------------------------------------------ value spaces
\* get_random_user_agent draws from a fixed pool; two representatives
\* (a Chrome one and the Firefox one).
RandomUAs == {"rand_chrome138", "rand_firefox134"}

\* None for a header dict.
NoHeaders == [ua |-> "none", ch |-> "none"]

\* get_browser_headers(page): always a User-Agent; the sec-ch-ua* group only
\* for a Chromium-family browser.  tag names the browser session.
BrowserHeaders(tag, kind) ==
    [ua |-> tag \o "_" \o kind,
     ch |-> IF kind = "chromium" THEN tag \o "_hints" ELSE "none"]

BrowserKinds == {"firefox", "chromium"}

\* The header set of a reward-code source: its own User-Agent and Client
\* Hints (for b4u those of its own browser session), sent to the
\* code-source host, not to the provider.
CdkHeaders == [ua |-> "cdk_chrome143", ch |-> "cdk_hints"]

NoReq == [host |-> "none", ua |-> "none", ch |-> "none"]
Req(host, h) == [host |-> host, ua |-> h.ua, ch |-> h.ch]

\* ------------------------------------------------------ execute_check_in
\* A JSON object is a function from its keys to their values; d.get(k) is
\* a lookup guarded by k \in DOMAIN d.  Texts (message, msg, the body of a
\* non-JSON response) are sequences of pieces, and `phrase in text` is the
\* occurrence of the piece.
EmptyDict == [k \in {} |-> 0]
Opt(k, Vs) == {EmptyDict} \cup {k :> v : v \in Vs}
Has(d, k) == k \in DOMAIN d
AlwaysDefault(d, k, default) == default
GetOr(d, k, default) == IF Has(d, k) THEN d[k] ELSE default
Contains(text, piece) == \E i \in 1..Len(text) : text[i] = piece

\* The two phrases of line 769-770: U+5DF2 U+7ECF U+7B7E U+5230 ("already
\* checked in") and U+7B7E U+5230 U+6210 U+529F ("check-in succeeded").
PhraseAlready == "<already checked in>"
PhraseSucceeded == "<check-in succeeded>"

\* str.lower() on the pieces used in bodies.
LowerPiece(p) ==
    CASE p = "Success" -> "success"
      [] p = "SUCCESS" -> "success"
      [] p = "Already" -> "already"
      [] OTHER -> p
Lower(text) == [i \in 1..Len(text) |-> LowerPiece(text[i])]

Messages ==
    { <<>>, <<"today", PhraseAlready>>, <<PhraseSucceeded>>,
      <<"not", "eligible">> }
Texts == { <<"<html>", "Success">>, <<"<html>", "denied">>, <<"success">> }
Statuses == {200, 400, 403, 500}

\* The data field of a body: a JSON object, or null.
DataValues == {"object", "null"}

JsonBodies ==
    { a @@ b @@ c @@ d @@ e @@ f :
        a \in Opt("ret", {0, 1}), b \in Opt("code", {0, 1}),
        c \in Opt("success", BOOLEAN), d \in Opt("message", Messages),
        e \in Opt("msg", Messages), f \in Opt("data", DataValues) }

\* What session.post returned: the status, and either a JSON object
\* (response_resolve returns it) or a body that does not parse (None).
Responses ==
    [status : Statuses, is_json : {TRUE}, json : JsonBodies, text : {<<>>}]
    \cup
    [status : Statuses, is_json : {FALSE}, json : {EmptyDict}, text : Texts]

NoResponse == [status |-> 0, is_json |-> FALSE, json |-> EmptyDict,
               text |-> <<>>]
NoResult == EmptyDict

HttpError(status) == <<"HTTP " \o ToString(status)>>

\* The call did not return: exc left execute_check_in.
Raised(exc) == "raised" :> exc

\* execute_check_in, lines 752-796.  check_in_data.get(...) on line 776
\* needs a dict: with "data": null it raises AttributeError.
execute_check_in(r) ==
    IF r.status \in {200, 400}
    THEN IF ~r.is_json
         THEN IF Contains(Lower(r.text), "success")
              THEN ("success" :> TRUE)
                   @@ ("message" :> <<"Check-in successful">>)
              ELSE ("success" :> FALSE)
                   @@ ("error" :> <<"Invalid response format">>)
         ELSE LET json_data == r.json
                  message == GetOr(json_data, "message",
                                   GetOr(json_data, "msg", <<>>))
              IN IF \/ (Has(json_data, "ret") /\ json_data["ret"] = 1)
                    \/ (Has(json_data, "code") /\ json_data["code"] = 0)
                    \/ (Has(json_data, "success") /\ json_data["success"])
                    \/ Contains(message, PhraseAlready)
                    \/ Contains(message, PhraseSucceeded)
                 THEN LET check_in_data == GetOr(json_data, "data", "object")
                      IN IF check_in_data = "null"
                         THEN Raised("AttributeError")
                         ELSE ("success" :> TRUE)
                              @@ ("message" :> IF message # <<>> THEN message
                                       ELSE <<"Check-in successful">>)
                              @@ ("data" :> check_in_data)
                 ELSE ("success" :> FALSE)
                      @@ ("error" :> GetOr(json_data, "msg",
                                       GetOr(json_data, "message",
                                             <<"Unknown error">>)))
    ELSE ("success" :> FALSE) @@ ("error" :> HttpError(r.status))

\* ------------------------------------------------------- provider profile
needs_waf_cookies(p) == p.bypass_method = "waf_cookies"
needs_cf_clearance(p) == p.bypass_method = "cf_clearance"
needs_manual_check_in(p) == p.check_in_path
needs_manual_topup(p) == p.topup_path /\ p.get_cdk
has_check_in_status_func(p) == p.check_in_status

ProviderConfig(bypass, path, status, cdk, github, linuxdo) ==
    [bypass_method |-> bypass, check_in_path |-> path,
     check_in_status |-> status, topup_path |-> TRUE, get_cdk |-> cdk,
     github_client_id |-> github, linuxdo_client_id |-> linuxdo]

\* The profiles of the built-in providers, by the fields the flows read
\* (is the path / the function / the client id set or None), and one
\* custom profile without client ids (ProviderConfig.from_dict).
ProviderConfigs ==
    { ProviderConfig("waf_cookies", TRUE, FALSE, FALSE, TRUE, TRUE),   \* anyrouter
      ProviderConfig("none", FALSE, FALSE, FALSE, TRUE, TRUE),         \* agentrouter
      ProviderConfig("none", TRUE, FALSE, FALSE, FALSE, TRUE),         \* wong
      ProviderConfig("none", TRUE, TRUE, FALSE, FALSE, TRUE),          \* huan666, kfc, ...
      ProviderConfig("cf_clearance", TRUE, TRUE, TRUE, FALSE, TRUE),   \* runawaytime
      ProviderConfig("none", FALSE, FALSE, TRUE, FALSE, TRUE),         \* x666
      ProviderConfig("cf_clearance", TRUE, TRUE, FALSE, FALSE, TRUE),  \* elysiver, hotaru
      ProviderConfig("cf_clearance", FALSE, FALSE, TRUE, FALSE, TRUE), \* b4u
      ProviderConfig("none", TRUE, TRUE, FALSE, TRUE, TRUE),           \* duckcoding
      ProviderConfig("waf_cookies", TRUE, FALSE, FALSE, FALSE, FALSE) }  \* custom

\* Accounts as _load_accounts admits them: at least one valid method, and
\* OAuth sub-accounts always with username and password.
AccountConfigs ==
    { a \in [cookies : {"none", "invalid", "valid"},
             api_user : BOOLEAN,
             github : 0..MaxGithub,
             linux_do : 0..MaxLinuxdo] :
        \* api_user is read only after the cookie string parsed
        /\ (a.cookies # "valid" => ~a.api_user)
        /\ (IF a.cookies # "none" THEN 1 ELSE 0) + a.github + a.linux_do
             <= MaxMethods
        /\ \/ (a.cookies = "valid" /\ a.api_user)
           \/ a.github > 0
           \/ a.linux_do > 0 }

\* ------------------------------------------------------------------- state
VARIABLES
    provider_config,   \* ProviderConfig of the account's provider
    account_config,    \* AccountConfig being processed
    pc,                \* position in main / CheckIn.execute / the method flows
    bypass_cookies,    \* execute: bypass_cookies ("empty" for {})
    browser_headers,   \* execute: browser_headers (NoHeaders for None)
    random_ua,         \* execute: random_ua ("none" until generated)
    common_headers,    \* execute: common_headers (NoHeaders until built)
    bypass_outcome,    \* how the bypass phase ended
    browser_open,      \* number of browser sessions currently open
    results,           \* execute: results
    caller,            \* which block of execute is running a method
    idx,               \* enumerate index of the current OAuth sub-account
    m_headers,         \* header set the current method sends to the provider
    m_log,             \* ordered steps of the current method (for ordering)
    m_ret,             \* (success, detail) the current method returns
    topup_count,       \* execute_topup: topup_count
    lastReq,           \* the most recent direct-HTTP request of the method
    oauthRet,          \* oauth_browser_headers of the most recent sign-in
    main_report,       \* main: what it recorded for the account and the run
    response,          \* execute_check_in: the response of session.post
    check_in_result,   \* execute_check_in: the dict it returned
    cdk_generator,     \* execute_topup: cdk_generator and how far it was read
    topup_results,     \* execute_topup: results
    topup_events,      \* execute_topup: the waits and submissions, in order
    cookies,           \* filter_cookies: the cookie list of the browser context
    origin,            \* filter_cookies: the provider's origin URL
    user_cookies,      \* filter_cookies: the dict it returned
    signin_st,         \* GitHubSignIn.signin: its locals and what it did
    signin_ret,        \* GitHubSignIn.signin: the triple it returned
    app_config,        \* main: app_config (its accounts, in configured order)
    balance_hash_file, \* balance_hash.txt: the digest stored in it
    last_balance_hash, \* main: last_balance_hash
    account_i,         \* main: i + 1 of the enumerate over the accounts
    success_count,     \* main: success_count
    total_count,       \* main: total_count
    notification_content, \* main: notification_content
    current_balances,  \* main: current_balances
    need_notify,       \* main: need_notify
    visited,           \* main: the accounts processed and how each ended
    push_message,      \* main: what notify.push_message was called with
    exit_code,         \* run_main: how the process ended and its exit code
    info_response,     \* get_user_info: the response of session.get
    user_info,         \* get_user_info: the dict it returned
    callback_response, \* check_in_with_github: the response of the callback
    cf_wait,           \* wait_for_cf_clearance_manually: its locals and result
    client_id_result,  \* check_in_with_github: client_id_result and its use
    proxy_config,      \* the account's proxy and the global proxy (PROXY)
    profile,           \* the fields of provider and account a run reads
    user_agent,        \* the User-Agent of common_headers / updated_headers
    sessions           \* every browser / HTTP session opened, in order

mainVars == <<app_config, balance_hash_file, last_balance_hash, account_i,
              success_count, total_count, notification_content, current_balances,
              need_notify, visited, push_message, exit_code>>
resVars == <<client_id_result, proxy_config, profile, user_agent, sessions>>
auxVars == <<info_response, user_info, callback_response, cf_wait, resVars>>
cfgVars == <<provider_config, account_config, response, check_in_result,
             cdk_generator, topup_results, topup_events, cookies, origin,
             user_cookies, signin_st, signin_ret, mainVars, auxVars>>
runVars == <<bypass_cookies, browser_headers, random_ua, common_headers,
             bypass_outcome>>
methVars == <<caller, idx, m_headers, m_log, m_ret, topup_count>>
histVars == <<lastReq, oauthRet>>
vars == <<provider_config, account_config, pc, bypass_cookies,
          browser_headers, random_ua, common_headers, bypass_outcome,
          browser_open, results, caller, idx, m_headers, m_log, m_ret,
          topup_count, lastReq, oauthRet, main_report,
          response, check_in_result, cdk_generator, topup_results,
          topup_events, cookies, origin, user_cookies, signin_st,
          signin_ret, mainVars, auxVars>>

\* A URL of the sign-in page: the site it is on and its query string, a
\* sequence of <<name, value>> pairs.
NoUrl == [site |-> "none", query |-> <<>>]

\* signin was not called.
NoSignin ==
    [cache_exists |-> FALSE, is_logged_in |-> FALSE, entered_login |-> FALSE,
     cache_saved |-> FALSE, shows |-> "none",
     cloudflare_challenge_detected |-> FALSE, callback_reached |-> FALSE,
     page_url |-> NoUrl, api_user |-> ""]
NoSigninRet == [success |-> FALSE, result |-> EmptyDict, headers |-> NoHeaders,
                returned |-> FALSE]

\* No origin: filter_cookies was not called.
NoOrigin == [scheme |-> "none", host |-> <<>>, port |-> ""]

\* No generator yet: get_cdk was not called.
NoGenerator == [is_async |-> FALSE, items |-> <<>>, consumed |-> 0]

NoRet == [success |-> FALSE, detail |-> "none", via |-> "none"]
NoReport ==
    [state |-> "pending", successful_methods |-> <<>>,
     failed_methods |-> <<>>, success_count |-> 0, total_count |-> 0,
     account_success |-> FALSE, need_notify |-> FALSE, summary |-> "none",
     exit_code |-> -1]

\* main was not started: its locals as lines 61-65 set them, nothing pushed,
\* the process running.
NoHash == [none |-> TRUE, of |-> <<>>]
NoPush == [pushed |-> FALSE, summary |-> "none"]
Running == [ended |-> "running", code |-> -1]
MainIdle ==
    /\ app_config = [accounts |-> <<>>]
    /\ balance_hash_file = NoHash
    /\ last_balance_hash = NoHash
    /\ account_i = 0
    /\ success_count = 0
    /\ total_count = 0
    /\ notification_content = <<>>
    /\ current_balances = <<>>
    /\ need_notify = FALSE
    /\ visited = <<>>
    /\ push_message = NoPush
    /\ exit_code = Running

\* get_user_info was not called.
UserInfoIdle ==
    /\ info_response = NoResponse
    /\ user_info = NoResult

\* No callback request was made.
NoCallback == [raised |-> FALSE, status |-> 0, is_json |-> FALSE,
               success |-> FALSE, data |-> [null |-> TRUE, obj |-> EmptyDict]]

\* wait_for_cf_clearance_manually at line 162: elapsed_time = 0, nothing
\* polled, nothing returned.
NoCfWait == [elapsed_time |-> 0, polls |-> 0, cookies |-> <<>>,
             challenge |-> FALSE, seen |-> 0, ret |-> "none"]

\* No client id was looked up.
NoClientId == [asked |-> FALSE, success |-> FALSE, client_id |-> "",
               passed |-> "none"]

\* No proxy, no profile, no User-Agent: no session was opened.
NoProxies == [account |-> "none", global |-> "none"]
NoProfile == [bypass_method |-> "none", cookies |-> FALSE, github |-> FALSE,
              check_in_status |-> FALSE, get_cdk |-> "none"]
NoUA == [family |-> "none", version |-> 0]
NoUserAgent == [common |-> NoUA, updated |-> NoUA]

ResIdle ==
    /\ client_id_result = NoClientId
    /\ proxy_config = NoProxies
    /\ profile = NoProfile
    /\ user_agent = NoUserAgent
    /\ sessions = <<>>

AuxIdle ==
    /\ UserInfoIdle
    /\ callback_response = NoCallback
    /\ cf_wait = NoCfWait
    /\ ResIdle

\* The state of CheckIn.execute and of the operations it calls before any
\* of them ran, with the profile and the account of a plain GitHub method.
ExecuteIdle ==
    /\ provider_config = ProviderConfig("none", TRUE, FALSE, FALSE, TRUE, TRUE)
    /\ account_config = [cookies |-> "none", api_user |-> FALSE,
                         github |-> 1, linux_do |-> 0]
    /\ response = NoResponse
    /\ check_in_result = NoResult
    /\ cdk_generator = NoGenerator
    /\ topup_results = NoResult
    /\ topup_events = <<>>
    /\ cookies = <<>>
    /\ origin = NoOrigin
    /\ user_cookies = EmptyDict
    /\ signin_st = NoSignin
    /\ signin_ret = NoSigninRet
    /\ bypass_cookies = "empty"
    /\ browser_headers = NoHeaders
    /\ random_ua = "none"
    /\ common_headers = NoHeaders
    /\ bypass_outcome = "pending"
    /\ browser_open = 0
    /\ results = <<>>
    /\ caller = "none"
    /\ idx = 0
    /\ m_headers = NoHeaders
    /\ m_log = <<>>
    /\ m_ret = NoRet
    /\ topup_count = 0
    /\ lastReq = NoReq
    /\ oauthRet = NoHeaders
    /\ main_report = NoReport

Init ==
    /\ provider_config \in ProviderConfigs
    /\ account_config \in AccountConfigs
    /\ pc = "execute"
    /\ bypass_cookies = "empty"
    /\ browser_headers = NoHeaders
    /\ random_ua = "none"
    /\ common_headers = NoHeaders
    /\ bypass_outcome = "pending"
    /\ browser_open = 0
    /\ results = <<>>
    /\ caller = "none"
    /\ idx = 0
    /\ m_headers = NoHeaders
    /\ m_log = <<>>
    /\ m_ret = NoRet
    /\ topup_count = 0
    /\ lastReq = NoReq
    /\ oauthRet = NoHeaders
    /\ main_report = NoReport
    /\ response = NoResponse
    /\ check_in_result = NoResult
    /\ cdk_generator = NoGenerator
    /\ topup_results = NoResult
    /\ topup_events = <<>>
    /\ cookies = <<>>
    /\ origin = NoOrigin
    /\ user_cookies = EmptyDict
    /\ signin_st = NoSignin
    /\ signin_ret = NoSigninRet
    /\ MainIdle
    /\ AuxIdle

\* ------------------------------------------------ execute: the bypass phase
\* execute, lines 1361-1395: pick the strategy.
ExecuteStart ==
    /\ pc = "execute"
    /\ pc' = CASE needs_waf_cookies(provider_config) -> "waf_launch"
               [] needs_cf_clearance(provider_config) -> "cf_launch"
               [] OTHER -> "headers"
    /\ bypass_outcome' = IF provider_config.bypass_method = "none"
                         THEN "not_required" ELSE "running"
    /\ UNCHANGED <<cfgVars, bypass_cookies, browser_headers, random_ua,
                   common_headers, browser_open, results, methVars,
                   histVars, main_report>>

\* get_waf_cookies_with_browser: `async with AsyncCamoufox(...)` and
\* `browser.new_page()` run before the try block, so a failure of either
\* leaves the function as an exception (the context manager closes the
\* browser on the way out).  execute calls the function outside any try.
WafLaunch ==
    /\ pc = "waf_launch"
    /\ \E ok \in BOOLEAN :
         IF ok
         THEN /\ browser_open' = browser_open + 1
              /\ pc' = "waf_body"
              /\ UNCHANGED bypass_outcome
         ELSE /\ browser_open' = browser_open
              /\ pc' = "raised"
              /\ bypass_outcome' = "waf_raised"
    /\ UNCHANGED <<cfgVars, bypass_cookies, browser_headers, random_ua,
                   common_headers, results, methVars, histVars, main_report>>

\* The try block: the named WAF cookies, or None when none was set or when
\* anything in the block raised (goto timeout included).
WafOutcomes == {"cookies", "none"}

\* The finally block (page.close()) and the exit of the context manager:
\* a failure there replaces the return value by an exception.
WafBodyResult(got, closed_ok) ==
    IF ~closed_ok THEN "waf_raised"
    ELSE IF got = "cookies" THEN "waf_ok" ELSE "waf_none"

WafBody ==
    /\ pc = "waf_body"
    /\ \E got \in WafOutcomes, closed_ok \in BOOLEAN :
         LET r == WafBodyResult(got, closed_ok) IN
         /\ bypass_outcome' = r
         /\ bypass_cookies' = IF r = "waf_ok" THEN "waf" ELSE "empty"
         /\ pc' = IF r = "waf_raised" THEN "raised" ELSE "headers"
    /\ browser_open' = browser_open - 1
    /\ UNCHANGED <<cfgVars, browser_headers, random_ua, common_headers,
                   results, methVars, histVars, main_report>>

\* get_cf_clearance: browser start and new_page are outside its try block
\* and raise out of the function; execute wraps the call in try/except.
CfLaunch ==
    /\ pc = "cf_launch"
    /\ \E ok \in BOOLEAN :
         IF ok
         THEN /\ browser_open' = browser_open + 1
              /\ pc' = "cf_body"
              /\ UNCHANGED bypass_outcome
         ELSE /\ browser_open' = browser_open
              /\ pc' = "headers"
              /\ bypass_outcome' = "cf_raised"
    /\ UNCHANGED <<cfgVars, bypass_cookies, browser_headers, random_ua,
                   common_headers, results, methVars, histVars, main_report>>

\* What the try block of get_cf_clearance yields:
\*   "cookie"    cf_clearance among the cookies -> (cf_cookies, headers)
\*   "no_cookie" the wait ended without it       -> (None, headers)
\*   "error"     anything raised in the block    -> (None, None)
CfOutcomes == {"cookie", "no_cookie", "error"}

\* An acquirer that hands back captured headers whatever happened.
HeadersAlways(got, kind) ==
    [cookies |-> IF got = "cookie" THEN "cf" ELSE "empty",
     headers |-> BrowserHeaders("cf", kind)]

\* cf_result as get_cf_clearance returns it, for a browser of the given kind.
get_cf_clearance(got, kind) ==
    [cookies |-> IF got = "cookie" THEN "cf" ELSE "empty",
     headers |-> IF got = "error" THEN NoHeaders
                 ELSE BrowserHeaders("cf", kind)]

\* execute, lines 1372-1392: `if cf_result[0]` and `if cf_result[1]` are two
\* separate tests; an exception from the call (page.close() in the finally
\* block failing) leaves both locals at their initial value.
CfBody ==
    /\ pc = "cf_body"
    /\ \E got \in CfOutcomes, kind \in BrowserKinds, closed_ok \in BOOLEAN :
         LET cf_result == get_cf_clearance(got, kind) IN
         IF closed_ok
         THEN /\ bypass_cookies' = cf_result.cookies
              /\ browser_headers' = cf_result.headers
              /\ bypass_outcome' = CASE got = "cookie" -> "cf_ok"
                                     [] got = "no_cookie" -> "cf_none"
                                     [] OTHER -> "cf_raised"
         ELSE /\ bypass_cookies' = "empty"
              /\ browser_headers' = NoHeaders
              /\ bypass_outcome' = "cf_raised"
    /\ browser_open' = browser_open - 1
    /\ pc' = "headers"
    /\ UNCHANGED <<cfgVars, random_ua, common_headers, results, methVars,
                   histVars, main_report>>

\* ------------------------------------------- execute: the shared header set
\* A builder that takes a fresh random User-Agent in every case.
RandomUaAlways(bh, rnd) == [ua |-> rnd, ch |-> bh.ch]

\* execute, lines 1397-1443.  With a captured fingerprint the User-Agent is
\* the captured one (get_browser_headers always sets it) and the Client
\* Hints are copied only when the capture has them; without one, rnd is the
\* User-Agent and no Client Hint is set.
BuildCommonHeaders(bh, rnd) ==
    IF bh # NoHeaders
    THEN [ua |-> bh.ua, ch |-> bh.ch]
    ELSE [ua |-> rnd, ch |-> "none"]

BuildHeaders ==
    /\ pc = "headers"
    /\ \E rnd \in RandomUAs :
         /\ random_ua' = IF browser_headers # NoHeaders THEN "none" ELSE rnd
         /\ common_headers' = BuildCommonHeaders(browser_headers, rnd)
    /\ pc' = "cookies_block"
    /\ UNCHANGED <<cfgVars, bypass_cookies, browser_headers, bypass_outcome,
                   browser_open, results, methVars, histVars, main_report>>

\* ------------------------------------------------- execute: method blocks
fixedVars == <<cfgVars, bypass_cookies,
               browser_headers, random_ua, common_headers, bypass_outcome,
               browser_open, main_report>>

\* account_label, lines 1481 and 1507.
Label(kind, i, n) ==
    IF n > 1 THEN kind \o "[" \o ToString(i) \o "]" ELSE kind

\* One (auth_method, success, user_info) tuple of results.  detail is the
\* shape of the third element: "user_info" (get_user_info's dict with
\* success True), "error" (a dict with an "error" key) or "raw" (the
\* sign-in's result_data handed back as it is).
Result(label, success, detail) ==
    [label |-> label, success |-> success, detail |-> detail]

ConfiguredMethods(a) ==
    (IF a.cookies # "none" THEN 1 ELSE 0) + a.github + a.linux_do

\* A caller that ignores the headers the sign-in returned.
KeepHeaders(h, oh) == h

\* dict.update(oauth_browser_headers) on a copy of common_headers,
\* lines 1123-1126 and 1147-1150: the User-Agent is always replaced, the
\* Client Hints only when the capture has them.
UpdateHeaders(h, oh) ==
    IF oh = NoHeaders THEN h
    ELSE [ua |-> oh.ua, ch |-> IF oh.ch # "none" THEN oh.ch ELSE h.ch]

\* A method that generates its own User-Agent.
FreshHeaders(h) == [h EXCEPT !.ua = "rand_regenerated"]

\* headers = common_headers.copy(), lines 961, 1062 and 1225.
CopyHeaders(h) == h

StartMethod(kind) ==
    /\ caller' = kind
    /\ m_headers' = CopyHeaders(common_headers)
    /\ m_log' = <<>>
    /\ m_ret' = NoRet
    /\ topup_count' = 0

\* execute, lines 1451-1476: the cookies block.
CookiesBlock ==
    /\ pc = "cookies_block"
    /\ CASE account_config.cookies = "none" ->
              /\ pc' = "github_block"
              /\ UNCHANGED <<results, methVars>>
         [] account_config.cookies = "invalid" \/ ~account_config.api_user ->
              /\ results' = Append(results, Result("cookies", FALSE, "error"))
              /\ pc' = "github_block"
              /\ UNCHANGED methVars
         [] OTHER ->
              /\ StartMethod("cookies")
              /\ idx' = 0
              /\ pc' = "cic_begin"
              /\ UNCHANGED results
    /\ UNCHANGED <<fixedVars, histVars>>

\* execute, lines 1478-1502: one iteration of the GitHub loop, or its end.
\* Sub-accounts always carry a username and a password (config.py 803-806).
GithubBlock ==
    /\ pc = "github_block"
    /\ IF idx < account_config.github
       THEN /\ StartMethod("github")
            /\ pc' = "oa_begin"
            /\ UNCHANGED idx
       ELSE /\ pc' = "linuxdo_block"
            /\ idx' = 0
            /\ caller' = "none"
            /\ UNCHANGED <<m_headers, m_log, m_ret, topup_count>>
    /\ UNCHANGED <<fixedVars, results, histVars>>

\* execute, lines 1504-1531: one iteration of the Linux.do loop, or its end.
LinuxdoBlock ==
    /\ pc = "linuxdo_block"
    /\ IF idx < account_config.linux_do
       THEN /\ StartMethod("linux.do")
            /\ pc' = "oa_begin"
            /\ UNCHANGED idx
       ELSE /\ pc' = "execute_return"
            /\ caller' = "none"
            /\ UNCHANGED <<idx, m_headers, m_log, m_ret, topup_count>>
    /\ UNCHANGED <<fixedVars, results, histVars>>

\* How a method hands back a failure: it returns (False, detail), its except
\* clause turns an exception into (False, {error}), or the exception leaves
\* the method and the except clause of the block in execute takes it.
Thrown == [success |-> FALSE, detail |-> "error", via |-> "raise"]
Uncaught == [success |-> FALSE, detail |-> "error", via |-> "raise"]
Caught == [success |-> FALSE, detail |-> "error", via |-> "except"]
Fail(detail) == [success |-> FALSE, detail |-> detail, via |-> "return"]

\* A method returns to execute: the finally block closes the session(s); an
\* exception leaving the method (from the finally block, or from code
\* outside the method's own try) is caught by the block's except clause.
\* Either way exactly one tuple is appended.
MethodReturn ==
    /\ pc = "m_return"
    /\ \E closed_ok \in BOOLEAN :
         LET n == IF caller = "github" THEN account_config.github
                  ELSE account_config.linux_do
             label == IF caller = "cookies" THEN "cookies"
                      ELSE Label(caller, idx, n)
         IN results' = Append(results,
                IF closed_ok THEN Result(label, m_ret.success, m_ret.detail)
                ELSE Result(label, FALSE, "error"))
    /\ pc' = CASE caller = "cookies" -> "github_block"
               [] caller = "github" -> "github_block"
               [] OTHER -> "linuxdo_block"
    /\ idx' = IF caller = "cookies" THEN 0 ELSE idx + 1
    \* the locals of the returned frames are gone
    /\ m_headers' = NoHeaders
    /\ m_log' = <<>>
    /\ m_ret' = NoRet
    /\ topup_count' = 0
    /\ lastReq' = NoReq
    /\ UNCHANGED <<fixedVars, caller, oauthRet>>

\* --------------------------------------- check_in_with_github / _linuxdo
\* The fixed part of every step inside a method.
methFixed == <<cfgVars, bypass_cookies,
               browser_headers, random_ua, common_headers, bypass_outcome,
               browser_open, main_report, results, caller, idx>>

SendProvider == lastReq' = Req("provider", m_headers)

\* lines 1050-1054 / 1213-1217: the session is constructed before the try
\* block; a failure leaves the method as an exception.
OAuthBegin ==
    /\ pc = "oa_begin"
    /\ \E ok \in BOOLEAN :
         IF ok
         THEN pc' = "oa_client_id" /\ UNCHANGED m_ret
         ELSE pc' = "m_return" /\ m_ret' = Thrown
    /\ UNCHANGED <<methFixed, m_headers, m_log, topup_count, histVars>>

NeverConfigured == FALSE

ConfiguredClientId ==
    IF caller = "github" THEN provider_config.github_client_id
    ELSE provider_config.linuxdo_client_id

\* lines 1067-1082: the configured client id, else discovery over HTTP
\* (get_auth_client_id catches its own exceptions and reports failure).
\* The log entry names where client_id_result came from.
\* What session.get(status_url) gives get_auth_client_id: an exception, or a
\* status with a body that response_resolve parses or not, its success flag
\* and its data (null, or an object that may carry "<provider>_oauth" and
\* "<provider>_client_id").
StatusData ==
    { a @@ b : a \in Opt("oauth", BOOLEAN),
               b \in Opt("client_id", {"", "Ov23"}) }

StatusReplies ==
    [raised : {TRUE}, status : {0}, is_json : {FALSE}, success : {FALSE},
     null : {TRUE}, data : {EmptyDict}]
    \cup
    [raised : {FALSE}, status : {200, 500}, is_json : {FALSE},
     success : {FALSE}, null : {TRUE}, data : {EmptyDict}]
    \cup
    [raised : {FALSE}, status : {200}, is_json : {TRUE}, success : BOOLEAN,
     null : {TRUE}, data : {EmptyDict}]
    \cup
    [raised : {FALSE}, status : {200}, is_json : {TRUE}, success : BOOLEAN,
     null : {FALSE}, data : StatusData]

ClientIdFound(id) == [success |-> TRUE, client_id |-> id]
ClientIdFailure == [success |-> FALSE, client_id |-> ""]

\* A discovery that reports failure when the status carries no client id.
RejectEmptyClientId(r) ==
    IF r.raised \/ r.status # 200 \/ ~r.is_json \/ ~r.success \/ r.null
    THEN ClientIdFailure
    ELSE IF ~GetOr(r.data, "oauth", FALSE) THEN ClientIdFailure
    ELSE IF GetOr(r.data, "client_id", "") = "" THEN ClientIdFailure
    ELSE ClientIdFound(r.data["client_id"])

\* get_auth_client_id, lines 359-421: success only for a 200 whose body
\* reports success with "<provider>_oauth" true; the client id is then
\* status_data.get("<provider>_client_id", "").  A null data raises on
\* .get; the except clause of line 417 turns that into a failure.
get_auth_client_id(r) ==
    IF r.raised \/ r.status # 200 \/ ~r.is_json \/ ~r.success \/ r.null
    THEN ClientIdFailure
    ELSE IF ~GetOr(r.data, "oauth", FALSE) THEN ClientIdFailure
    ELSE ClientIdFound(GetOr(r.data, "client_id", ""))

\* lines 1078-1082 and 1241-1245: the test of client_id_result.
ClientIdOutcome(res) ==
    IF res.success
    THEN pc' = "oa_auth_state" /\ UNCHANGED m_ret
    ELSE pc' = "m_return" /\ m_ret' = Fail("error")

OAuthClientId ==
    /\ pc = "oa_client_id"
    /\ IF ConfiguredClientId
       THEN /\ pc' = "oa_auth_state"
            /\ m_log' = Append(m_log, "client_id_config")
            /\ UNCHANGED <<m_ret, lastReq>>
       ELSE /\ SendProvider
            /\ m_log' = Append(m_log, "client_id_discovery")
            /\ \E r \in StatusReplies :
                 ClientIdOutcome(get_auth_client_id(r))
    /\ UNCHANGED <<methFixed, m_headers, topup_count, oauthRet>>

\* lines 1084-1094: get_auth_state (catches its own exceptions).
OAuthAuthState ==
    /\ pc = "oa_auth_state"
    /\ SendProvider
    /\ m_log' = Append(m_log, "auth_state")
    /\ \E ok \in BOOLEAN :
         IF ok
         THEN pc' = "oa_signin" /\ UNCHANGED m_ret
         ELSE pc' = "m_return" /\ m_ret' = Fail("error")
    /\ UNCHANGED <<methFixed, m_headers, topup_count, oauthRet>>

\* What the browser sign-in hands back:
\*   "cookies"    (True, {cookies, api_user}, headers)
\*   "code_state" (True, query with code and state, headers)
\*   "code_only"  (True, query with code but no state, headers)
\*   "fail"       (False, {"error": ...}, None)
\*   "raise"      the call raised
SigninOutcomes == {"cookies", "code_state", "code_only", "fail", "raise"}

\* sign_in_with_linuxdo is imported at checkin.py 1263-1265 but is not among
\* the sources; LinuxDoSignIn.signin is taken to answer with the same triple
\* as GitHubSignIn.signin, which is all check_in_with_linuxdo relies on.
LinuxDoSigninOutcomes == {"cookies", "code_state", "code_only", "fail", "raise"}

SigninOutcomesOf(kind) ==
    IF kind = "github" THEN SigninOutcomes ELSE LinuxDoSigninOutcomes

\* The fingerprint headers a sign-in can return: None unless a Cloudflare
\* challenge page was seen, then get_browser_headers(page).
SigninHeaders(outcome) ==
    IF outcome \in {"cookies", "code_state", "code_only"}
    THEN {NoHeaders} \cup {BrowserHeaders("oauth", k) : k \in BrowserKinds}
    ELSE {NoHeaders}

\* An update applied to the dict that execute holds.
UpdatedInPlace(held, oh) == UpdateHeaders(held, oh)

\* lines 1123 and 1145: updated_headers is common_headers.copy(), so the
\* update of lines 1126 and 1148 leaves the dict held by execute as it was.
HeldAfterUpdate(held, oh) == held

\* lines 1109-1186: the sign-in and the branch on what it returned.
SigninBranch ==
    /\ pc = "oa_signin"
    /\ \E outcome \in SigninOutcomesOf(caller) :
       \E h \in SigninHeaders(outcome) :
         /\ oauthRet' = h
         /\ m_log' = Append(m_log, "signin")
         /\ lastReq' = NoReq
         /\ CASE outcome = "cookies" ->
                   /\ m_headers' = UpdateHeaders(common_headers, h)
                   /\ common_headers' = HeldAfterUpdate(common_headers, h)
                   /\ pc' = "cic_begin"
                   /\ UNCHANGED m_ret
              [] outcome = "code_state" ->
                   /\ m_headers' = UpdateHeaders(common_headers, h)
                   /\ common_headers' = HeldAfterUpdate(common_headers, h)
                   /\ pc' = "oa_callback"
                   /\ UNCHANGED m_ret
              [] outcome = "code_only" ->
                   /\ m_ret' = Fail("raw")
                   /\ pc' = "m_return"
                   /\ UNCHANGED <<m_headers, common_headers>>
              [] OTHER ->
                   /\ m_ret' = IF outcome = "raise" THEN Caught
                              ELSE Fail("error")
                   /\ pc' = "m_return"
                   /\ UNCHANGED <<m_headers, common_headers>>
    /\ UNCHANGED <<bypass_cookies, browser_headers, random_ua,
                   bypass_outcome, browser_open, main_report, results,
                   caller, idx, topup_count>>

OAuthSignin ==
    /\ SigninBranch
    /\ UNCHANGED cfgVars

\* What session.get(callback_url) gives: an exception, or a status with a
\* body that response_resolve parses or not, its success flag and its data
\* (null, or an object with or without an id; 0 stands for an empty id).
CallbackReplies ==
    {[NoCallback EXCEPT !.raised = TRUE]}
    \cup
    [raised : {FALSE}, status : {200, 500}, is_json : {FALSE},
     success : {FALSE}, data : {[null |-> TRUE, obj |-> EmptyDict]}]
    \cup
    [raised : {FALSE}, status : {200, 500}, is_json : {TRUE},
     success : BOOLEAN,
     data : {[null |-> TRUE, obj |-> EmptyDict]}
            \cup [null : {FALSE}, obj : Opt("id", {0, 7})]]

\* An exchange that does not look for the user id.
ExchangedWithoutId(r) ==
    ~r.raised /\ r.status = 200 /\ r.is_json /\ r.success

\* lines 1152-1158: the exchange gave a user id.  user_data.get("id") on a
\* null data raises, which the except clause of line 1181 takes.
Exchanged(r) ==
    /\ ~r.raised
    /\ r.status = 200
    /\ r.is_json
    /\ r.success
    /\ ~r.data.null
    /\ GetOr(r.data.obj, "id", 0) # 0

\* lines 1158-1183: the session bootstrap, or the failure returned.
CallbackOutcome(r) ==
    IF Exchanged(r)
    THEN pc' = "cic_begin" /\ UNCHANGED m_ret
    ELSE pc' = "m_return" /\ m_ret' = Fail("error")

\* lines 1130-1183: the code exchange at the provider's callback endpoint,
\* sent with updated_headers; only a 200 with success and a user id goes on.
OAuthCallback ==
    /\ pc = "oa_callback"
    /\ SendProvider
    /\ m_log' = Append(m_log, "callback")
    /\ \E r \in CallbackReplies : CallbackOutcome(r)
    /\ UNCHANGED <<methFixed, m_headers, topup_count, oauthRet>>

\* ------------------------------------------------- check_in_with_cookies
AfterCheckIn ==
    IF needs_manual_topup(provider_config) THEN "cic_cdk"
    ELSE "cic_user_info"

\* lines 951-997: the session is constructed before the try block; then
\* the branch on needs_manual_check_in and on the status function.
CicBegin ==
    /\ pc = "cic_begin"
    /\ \E ok \in BOOLEAN :
         IF ok
         THEN /\ pc' = IF needs_manual_check_in(provider_config)
                       THEN IF has_check_in_status_func(provider_config)
                            THEN "cic_status" ELSE "cic_check_in"
                       ELSE AfterCheckIn
              /\ UNCHANGED m_ret
         ELSE pc' = "m_return" /\ m_ret' = Thrown
    /\ UNCHANGED <<methFixed, m_headers, m_log, topup_count, histVars>>

\* A flow that posts the check-in whatever the status query said.
IgnoreStatus(checked_in_today) == "cic_check_in"

\* lines 977-981: the branch on what the status query said.
AfterStatus(checked_in_today) ==
    IF checked_in_today THEN AfterCheckIn ELSE "cic_check_in"

\* lines 969-977: the status query before the check-in (the status function
\* reports False on any error).  An answer "already checked in today" is
\* noted in the step sequence.
CicStatus ==
    /\ pc = "cic_status"
    /\ SendProvider
    /\ \E checked_in_today \in BOOLEAN :
         /\ pc' = AfterStatus(checked_in_today)
         /\ m_log' = IF checked_in_today
                     THEN Append(m_log, "checked_in_today") ELSE m_log
    /\ UNCHANGED <<methFixed, m_headers, m_ret, topup_count, oauthRet>>

\* How a call of execute_check_in can end, over the responses of the
\* provider.
CheckInOutcomes ==
    { LET res == execute_check_in(r)
      IN IF Has(res, "raised") THEN "raised"
         ELSE IF res["success"] THEN "ok" ELSE "failed" : r \in Responses }

\* A flow that goes on whatever execute_check_in returned.
IgnoreCheckInResult(outcome) == AfterCheckIn

\* lines 981-989 and 993-995: `if not check_in_result.get("success"): return`.
AfterCheckInResult(outcome) ==
    IF outcome # "ok" THEN "m_return"
    ELSE IF has_check_in_status_func(provider_config) THEN "cic_status2"
    ELSE AfterCheckIn

\* lines 979-995: execute_check_in; a failure ends the method, an exception
\* (session.post raising, or execute_check_in itself) is caught by the
\* method's except clause.
CicCheckIn ==
    /\ pc = "cic_check_in"
    /\ SendProvider
    /\ m_log' = Append(m_log, "checkin")
    /\ \/ /\ m_ret' = Caught
          /\ pc' = "m_return"
       \/ \E outcome \in CheckInOutcomes :
            /\ pc' = AfterCheckInResult(outcome)
            /\ m_ret' = CASE outcome = "ok" -> m_ret
                           [] outcome = "raised" -> Caught
                           [] OTHER -> Fail("error")
    /\ UNCHANGED <<methFixed, m_headers, topup_count, oauthRet>>

\* lines 983-989: the status query repeated for display.
CicStatusAgain ==
    /\ pc = "cic_status2"
    /\ SendProvider
    /\ pc' = AfterCheckIn
    /\ UNCHANGED <<methFixed, m_headers, m_log, m_ret, topup_count,
                   oauthRet>>

\* A flow that posts the check-in once the top-ups are over.
CheckInAfterTopup == "cic_check_in"

\* line 1013: the step after execute_topup returned success.
AfterTopup == "cic_user_info"

\* What the code source yields next: the end of the generator, a failure
\* (False, {error}), an empty code, a code, or an exception.
CdkElements == {"end", "fail", "empty", "code", "raise"}

\* execute_topup, lines 912-924 with process_cdk_result up to line 879: one
\* element of the generator.  The code source talks to its own host with
\* its own header set.
CicCdk ==
    /\ pc = "cic_cdk"
    /\ \E el \in IF topup_count < MaxTopups THEN CdkElements
                  ELSE CdkElements \ {"code"} :
         /\ lastReq' = IF el \in {"fail", "empty", "code"}
                       THEN Req("cdk", CdkHeaders) ELSE lastReq
         /\ pc' = CASE el = "end" -> AfterTopup
                    [] el = "empty" -> "cic_cdk"
                    [] el = "code" -> "cic_topup"
                    [] OTHER -> "m_return"
         /\ m_ret' = CASE el = "fail" -> Fail("error")
                         [] el = "raise" -> Caught
                         [] OTHER -> m_ret
    /\ UNCHANGED <<methFixed, m_headers, m_log, topup_count, oauthRet>>

\* A loop that takes the next code whatever the submission returned.
IgnoreTopupResult(ok) == "cic_cdk"

\* lines 899-910 and 916-918: a successful submission continues the loop, a
\* failed one breaks it, and lines 1008-1011 return the failure.
AfterTopupResult(ok) == IF ok THEN "cic_cdk" ELSE "m_return"

\* process_cdk_result, lines 881-910: one submission to the top-up
\* endpoint; a failed submission stops the loop and the method.  topup()
\* catches what its request raises; what raises before its try block
\* (topup.py 39-53) reaches the except clause of check_in_with_cookies.
CicTopup ==
    /\ pc = "cic_topup"
    /\ SendProvider
    /\ topup_count' = topup_count + 1
    /\ m_log' = Append(m_log, "topup")
    /\ \/ /\ pc' = "m_return"
          /\ m_ret' = Caught
       \/ \E ok \in BOOLEAN :
            /\ pc' = AfterTopupResult(ok)
            /\ m_ret' = IF ok THEN m_ret ELSE Fail("error")
    /\ UNCHANGED <<methFixed, m_headers, oauthRet>>

\* lines 1013-1023: the final user-info fetch decides the method's result.
CicUserInfo ==
    /\ pc = "cic_user_info"
    /\ SendProvider
    /\ m_log' = Append(m_log, "userinfo")
    /\ \E ok \in BOOLEAN :
         m_ret' = IF ok THEN [success |-> TRUE, detail |-> "user_info",
                              via |-> "return"]
                  ELSE Fail("error")
    /\ pc' = "m_return"
    /\ UNCHANGED <<methFixed, m_headers, topup_count, oauthRet>>

\* execute, lines 1533-1548: the list goes back to main.
ExecuteReturn ==
    /\ pc = "execute_return"
    /\ pc' = "main_account"
    /\ UNCHANGED <<fixedVars, results, methVars, histVars>>

\* ------------------------------------------------------------------- main
\* A report that counts no method.
CountsNothing(r) == FALSE

\* main, line 101: the test that counts a method as a success.
CountsAsSuccess(r) == r.success /\ r.detail = "user_info"
CountsAsFailure(r) == ~CountsAsSuccess(r)

\* main, line 117: the error text listed for a failed method.
ErrorText(r) == IF r.detail = "error" THEN "error" ELSE "Unknown error"

\* main, lines 89-141, for the list execute returned.
AccountReport(res) ==
    LET ok == SelectSeq(res, CountsAsSuccess)
        ko == SelectSeq(res, CountsAsFailure)
    IN [state |-> "account_done",
        successful_methods |-> [i \in 1..Len(ok) |-> ok[i].label],
        failed_methods |-> [i \in 1..Len(ko) |->
                              [label |-> ko[i].label,
                               error |-> ErrorText(ko[i])]],
        success_count |-> Len(ok),
        total_count |-> Len(res),
        account_success |-> Len(ok) > 0,
        need_notify |-> \/ (Len(ok) = 0 /\ Len(res) > 0)
                        \/ (Len(ko) > 0 /\ Len(ok) > 0),
        summary |-> "none",
        exit_code |-> -1]

MainAccount ==
    /\ pc = "main_account"
    /\ main_report' = AccountReport(results)
    /\ pc' = "main_summary"
    /\ UNCHANGED <<cfgVars, runVars, browser_open, results, methVars,
                   histVars>>

\* main, lines 143-146: an exception out of execute is caught per account.
MainException ==
    /\ pc = "raised"
    /\ main_report' = [main_report EXCEPT !.state = "exception",
                                          !.need_notify = TRUE]
    /\ pc' = "main_summary"
    /\ UNCHANGED <<cfgVars, runVars, browser_open, results, methVars,
                   histVars>>

\* A closing line that does not look at the counts.
AlwaysAllSuccessful(succeeded, total) == "all_successful"

\* main, lines 176-181: the closing line of the notification.
SummaryLine(succeeded, total) ==
    IF succeeded = total THEN "all_successful"
    ELSE IF succeeded > 0 THEN "some_successful"
    ELSE "all_failed"

\* main, lines 148-194: the balance hash (first run or changed, when some
\* method succeeded), the notification and the exit code.
MainSummary ==
    /\ pc = "main_summary"
    /\ \E balance_changed \in BOOLEAN :
         LET notify == \/ main_report.need_notify
                       \/ (main_report.account_success /\ balance_changed)
         IN main_report' =
              [main_report EXCEPT
                 !.state = "exited",
                 !.need_notify = notify,
                 !.summary = IF notify
                             THEN SummaryLine(main_report.success_count,
                                              main_report.total_count)
                             ELSE "skipped",
                 !.exit_code = IF main_report.success_count > 0
                               THEN 0 ELSE 1]
    /\ pc' = "exit"
    /\ UNCHANGED <<cfgVars, runVars, browser_open, results, methVars,
                   histVars>>

\* ---------------------------------------------------------- specification
Next ==
    \/ ExecuteStart
    \/ WafLaunch
    \/ WafBody
    \/ CfLaunch
    \/ CfBody
    \/ BuildHeaders
    \/ CookiesBlock
    \/ GithubBlock
    \/ LinuxdoBlock
    \/ OAuthBegin
    \/ OAuthClientId
    \/ OAuthAuthState
    \/ OAuthSignin
    \/ OAuthCallback
    \/ CicBegin
    \/ CicStatus
    \/ CicCheckIn
    \/ CicStatusAgain
    \/ CicCdk
    \/ CicTopup
    \/ CicUserInfo
    \/ MethodReturn
    \/ ExecuteReturn
    \/ MainAccount
    \/ MainException
    \/ MainSummary

Spec == Init /\ [][Next]_vars

\* ------------------------------------- execute_check_in on its own inputs
\* One call of execute_check_in for each response session.post can return.
InitCheckIn ==
    /\ response \in Responses
    /\ check_in_result = NoResult
    /\ pc = "check_in_call"
    /\ provider_config = ProviderConfig("none", TRUE, FALSE, FALSE, FALSE, TRUE)
    /\ account_config = [cookies |-> "valid", api_user |-> TRUE,
                         github |-> 0, linux_do |-> 0]
    /\ bypass_cookies = "empty"
    /\ browser_headers = NoHeaders
    /\ random_ua = "none"
    /\ common_headers = NoHeaders
    /\ bypass_outcome = "pending"
    /\ browser_open = 0
    /\ results = <<>>
    /\ caller = "none"
    /\ idx = 0
    /\ m_headers = NoHeaders
    /\ m_log = <<>>
    /\ m_ret = NoRet
    /\ topup_count = 0
    /\ lastReq = NoReq
    /\ oauthRet = NoHeaders
    /\ main_report = NoReport
    /\ cdk_generator = NoGenerator
    /\ topup_results = NoResult
    /\ topup_events = <<>>
    /\ cookies = <<>>
    /\ origin = NoOrigin
    /\ user_cookies = EmptyDict
    /\ signin_st = NoSignin
    /\ signin_ret = NoSigninRet
    /\ MainIdle
    /\ AuxIdle

ExecuteCheckIn ==
    /\ pc = "check_in_call"
    /\ check_in_result' = execute_check_in(response)
    /\ pc' = "check_in_returned"
    /\ UNCHANGED <<provider_config, account_config, response, runVars,
                   browser_open, results, methVars, histVars, main_report,
                   cdk_generator, topup_results, topup_events, cookies,
                   origin, user_cookies, signin_st, signin_ret, mainVars, auxVars>>

NextCheckIn == ExecuteCheckIn

SpecCheckIn == InitCheckIn /\ [][NextCheckIn]_vars

\* ---------------------------------------------------------- utils/topup.py
\* The codes a producer yields.
Codes == {"c1", "c2"}

\* The phrases of topup.py line 93: U+5DF2 U+88AB U+4F7F U+7528 ("has been
\* used") and U+5DF2 U+4F7F U+7528 ("used"); the third test is "already" in
\* the lower-cased message.
PhraseBeenUsed == "<has been used>"
PhraseUsed == "<used>"

TopupMessages ==
    { <<"invalid", "code">>, <<"code", PhraseBeenUsed>>,
      <<"Already", "redeemed">>, <<PhraseUsed>> }

TopupJsons ==
    { a @@ b : a \in Opt("success", BOOLEAN),
               b \in Opt("message", TopupMessages) }

\* What session.post of topup() does: it returns a response with a JSON
\* body (a 400 carries a refusal), a response whose body does not parse, or
\* it raises.
TopupReplies ==
    [kind : {"response"}, status : {200}, is_json : {TRUE},
     json : TopupJsons]
    \cup
    [kind : {"response"}, status : {400}, is_json : {TRUE},
     json : {j \in TopupJsons : Has(j, "success") /\ ~j["success"]}]
    \cup
    [kind : {"response"}, status : {200, 400, 500}, is_json : {FALSE},
     json : {EmptyDict}]
    \cup
    [kind : {"exception"}, status : {0}, is_json : {FALSE},
     json : {EmptyDict}]

NoReply == [kind |-> "none", status |-> 0, is_json |-> FALSE,
            json |-> EmptyDict]

NeverUsed(error_msg) == FALSE

\* topup.py line 93.
AlreadyUsed(error_msg) ==
    \/ Contains(error_msg, PhraseBeenUsed)
    \/ Contains(Lower(error_msg), "already")
    \/ Contains(error_msg, PhraseUsed)

\* The "(key: {key})" suffix of lines 103, 109 and 115.
KeyNote(key) == <<"(key: ", key, ")">>

\* topup, lines 53-118, on the outcome of its request.
topup(reply, key) ==
    IF reply.kind = "exception"
    THEN ("success" :> FALSE)
         @@ ("error" :> <<"Topup failed: ", "<exception>">> \o KeyNote(key))
    ELSE IF reply.status \in {200, 400}
    THEN IF ~reply.is_json
         THEN ("success" :> FALSE)
              @@ ("error" :>
                    <<"Failed to topup: Invalid response type (saved to logs)">>)
         ELSE LET json_data == reply.json
              IN IF Has(json_data, "success") /\ json_data["success"]
                 THEN ("success" :> TRUE)
                      @@ ("message" :> GetOr(json_data, "message",
                                             <<"Topup successful">>))
                 ELSE LET error_msg == GetOr(json_data, "message",
                                             <<"Unknown error">>)
                      IN IF AlreadyUsed(error_msg)
                         THEN ("success" :> TRUE)
                              @@ ("message" :> error_msg)
                              @@ ("already_used" :> TRUE)
                         ELSE ("success" :> FALSE)
                              @@ ("error" :> <<"Topup failed: ">>
                                             \o error_msg \o KeyNote(key))
    ELSE ("success" :> FALSE)
         @@ ("error" :> <<"Topup failed: ",
                          "HTTP " \o ToString(reply.status)>> \o KeyNote(key))

\* ------------------------------------------------- execute_topup on its own
\* topup_interval, the default of line 803; the only call (line 1002) does
\* not pass it.
TopupInterval == 60

\* The (ok, data) pairs a producer yields.
CdkItems ==
    { <<TRUE, "code" :> c>> : c \in Codes \cup {""} }
    \cup { <<TRUE, EmptyDict>>, <<FALSE, "error" :> <<"x">>>>,
           <<FALSE, EmptyDict>> }

Producers == UNION { [1..n -> CdkItems] : n \in 0..MaxProducer }

\* results, lines 839-844.
InitResults == [success |-> TRUE, topup_count |-> 0,
                topup_success_count |-> 0, error |-> <<>>]

\* asyncio.sleep(topup_interval) and the call of topup(key=cdk).
SleepEvent == [op |-> "sleep", secs |-> TopupInterval, key |-> "",
               reply |-> NoReply]
TopupEvent(key, reply) == [op |-> "topup", secs |-> 0, key |-> key,
                           reply |-> reply]

AlwaysCooldown(count) == TRUE

\* line 882.
NeedsCooldown(count) == count > 0 /\ TopupInterval > 0

FixedCdkError(data) == <<"Failed to get CDK">>

\* A stop that is reported without any text.
SilentCdkError(data) == <<>>

\* line 868.
CdkError(data) == GetOr(data, "error", <<"Failed to get CDK">>)

\* The element leads to a call of topup: lines 867-879.
Submits(item) == item[1] /\ GetOr(item[2], "code", "") # ""

\* process_cdk_result, lines 854-910: the new values of topup_count,
\* results and the event log, and whether the loop goes on.
process_cdk_result(success, data, reply) ==
    IF ~success
    THEN [topup_count |-> topup_count,
          results |-> [topup_results EXCEPT !.success = FALSE,
                                             !.error = CdkError(data)],
          events |-> topup_events, should_continue |-> FALSE]
    ELSE LET cdk == GetOr(data, "code", "")
         IN IF cdk = ""
            THEN [topup_count |-> topup_count, results |-> topup_results,
                  events |-> topup_events, should_continue |-> TRUE]
            ELSE LET waited == IF NeedsCooldown(topup_count)
                               THEN Append(topup_events, SleepEvent)
                               ELSE topup_events
                     submitted == Append(waited, TopupEvent(cdk, reply))
                     topup_result == topup(reply, cdk)
                     counted == [topup_results EXCEPT !.topup_count = @ + 1]
                 IN IF topup_result["success"]
                    THEN [topup_count |-> topup_count + 1,
                          results |-> [counted EXCEPT
                                         !.topup_success_count = @ + 1],
                          events |-> submitted, should_continue |-> TRUE]
                    ELSE [topup_count |-> topup_count + 1,
                          results |-> [counted EXCEPT
                                         !.success = FALSE,
                                         !.error = GetOr(topup_result, "error",
                                                         <<"Topup failed">>)],
                          events |-> submitted, should_continue |-> FALSE]

NeverBreak(should_continue) == FALSE

\* lines 916-917: the break of the async for.
AsyncBreak(should_continue) == ~should_continue

\* lines 922-923: the break of the plain for.
SyncBreak(should_continue) == ~should_continue

\* One round of either loop: the generator is exhausted, or it yields its
\* next pair and process_cdk_result handles it.
ForBody(is_async) ==
    IF cdk_generator.consumed = Len(cdk_generator.items)
    THEN /\ pc' = "topup_after"
         /\ UNCHANGED <<cdk_generator, topup_count, topup_results,
                        topup_events>>
    ELSE LET item == cdk_generator.items[cdk_generator.consumed + 1]
         IN \E reply \in (IF Submits(item) THEN TopupReplies ELSE {NoReply}) :
              LET out == process_cdk_result(item[1], item[2], reply)
              IN /\ cdk_generator' =
                       [cdk_generator EXCEPT !.consumed = @ + 1]
                 /\ topup_count' = out.topup_count
                 /\ topup_results' = out.results
                 /\ topup_events' = out.events
                 /\ pc' = IF (IF is_async
                              THEN AsyncBreak(out.should_continue)
                              ELSE SyncBreak(out.should_continue))
                          THEN "topup_after" ELSE "topup_loop"

topupFixed == <<provider_config, account_config, response, check_in_result,
                runVars, browser_open, results, caller, idx, m_headers,
                m_log, m_ret, histVars, main_report, cookies, origin,
                user_cookies, signin_st, signin_ret, mainVars, auxVars>>

\* lines 913-917.
AsyncFor ==
    /\ pc = "topup_loop"
    /\ cdk_generator.is_async
    /\ ForBody(TRUE)
    /\ UNCHANGED topupFixed

\* lines 918-924.
SyncFor ==
    /\ pc = "topup_loop"
    /\ ~cdk_generator.is_async
    /\ ForBody(FALSE)
    /\ UNCHANGED topupFixed

\* lines 926-931.
TopupReturn ==
    /\ pc = "topup_after"
    /\ pc' = "topup_returned"
    /\ UNCHANGED <<topupFixed, cdk_generator, topup_count, topup_results,
                   topup_events>>

\* One call of execute_topup for each producer, synchronous or not.
InitTopup ==
    /\ cdk_generator \in [is_async : BOOLEAN, items : Producers,
                          consumed : {0}]
    /\ topup_results = InitResults
    /\ topup_events = <<>>
    /\ topup_count = 0
    /\ pc = "topup_loop"
    /\ provider_config = ProviderConfig("none", FALSE, FALSE, TRUE, FALSE, TRUE)
    /\ account_config = [cookies |-> "valid", api_user |-> TRUE,
                         github |-> 0, linux_do |-> 0]
    /\ response = NoResponse
    /\ check_in_result = NoResult
    /\ bypass_cookies = "empty"
    /\ browser_headers = NoHeaders
    /\ random_ua = "none"
    /\ common_headers = NoHeaders
    /\ bypass_outcome = "pending"
    /\ browser_open = 0
    /\ results = <<>>
    /\ caller = "none"
    /\ idx = 0
    /\ m_headers = NoHeaders
    /\ m_log = <<>>
    /\ m_ret = NoRet
    /\ lastReq = NoReq
    /\ oauthRet = NoHeaders
    /\ main_report = NoReport
    /\ cookies = <<>>
    /\ origin = NoOrigin
    /\ user_cookies = EmptyDict
    /\ signin_st = NoSignin
    /\ signin_ret = NoSigninRet
    /\ MainIdle
    /\ AuxIdle

NextTopup == AsyncFor \/ SyncFor \/ TopupReturn

SpecTopup == InitTopup /\ [][NextTopup]_vars

\* ------------------------------------------------ filter_cookies on its own
\* A domain is the sequence of its labels: "api.example.com" is
\* <<"api", "example", "com">>; a cookie's domain may carry a leading dot.
\* An origin is scheme://host or scheme://host:port.
Hosts == { <<"api", "example", "com">>, <<"example", "com">> }
Ports == {"", "8443"}
Origins == [scheme : {"https"}, host : Hosts, port : Ports]

CookieDomains ==
    [dots : {0, 1},
     labels : Hosts \cup { <<"com">>, <<"old", "api", "example", "com">>,
                           <<"evil", "com">> }]
    \cup { [dots |-> 0, labels |-> <<>>] }

\* The cookies of a browser context: name, value (possibly empty), domain.
Cookies == [name : {"session", "token"}, value : {"v1", "v2", ""},
            domain : CookieDomains]
CookieLists == UNION { [1..n -> Cookies] : n \in 0..MaxCookies }

\* urlparse(origin).netloc, line 47: everything between "//" and the path,
\* the port included.
netloc(url) ==
    IF url.port = "" THEN url.host
    ELSE [url.host EXCEPT ![Len(url.host)] = @ \o ":" \o url.port]

\* domain.lstrip("."), lines 62-63.
lstrip(domain) == domain.labels

\* s.endswith("." + t), lines 68-69: t is a proper suffix of s that starts
\* at a label boundary; no domain here ends in a dot.
EndsWithDot(s, t) ==
    /\ Len(t) > 0
    /\ Len(t) < Len(s)
    /\ SubSeq(s, Len(s) - Len(t) + 1, Len(s)) = t

MatchesAlways(provider_domain, cookie_domain) == TRUE

\* lines 66-70.
DomainMatches(provider_domain, cookie_domain) ==
    \/ provider_domain = cookie_domain
    \/ EndsWithDot(provider_domain, cookie_domain)
    \/ EndsWithDot(cookie_domain, provider_domain)

\* filter_cookies, lines 36-86: the loop over the list, into a dict.
RECURSIVE FilterLoop(_, _, _)
FilterLoop(list, provider_domain, dict) ==
    IF list = <<>> THEN dict
    ELSE LET cookie == Head(list)
             keep == /\ cookie.name # "" /\ cookie.value # ""
                     /\ DomainMatches(provider_domain, lstrip(cookie.domain))
         IN FilterLoop(Tail(list), provider_domain,
                       IF keep
                       THEN (cookie.name :> cookie.value) @@ dict
                       ELSE dict)

filter_cookies(list, url) == FilterLoop(list, netloc(url), EmptyDict)

filterFixed == <<provider_config, account_config, response, check_in_result,
                 runVars, browser_open, results, methVars, histVars,
                 main_report, cdk_generator, topup_results, topup_events,
                 signin_st, signin_ret, mainVars, auxVars>>

FilterCookies ==
    /\ pc = "filter_call"
    /\ user_cookies' = filter_cookies(cookies, origin)
    /\ pc' = "filter_returned"
    /\ UNCHANGED <<filterFixed, cookies, origin>>

\* One call of filter_cookies for each cookie list and origin.
InitFilter ==
    /\ cookies \in CookieLists
    /\ origin \in Origins
    /\ user_cookies = EmptyDict
    /\ signin_st = NoSignin
    /\ signin_ret = NoSigninRet
    /\ MainIdle
    /\ AuxIdle
    /\ pc = "filter_call"
    /\ provider_config = ProviderConfig("none", TRUE, FALSE, FALSE, TRUE, TRUE)
    /\ account_config = [cookies |-> "none", api_user |-> FALSE,
                         github |-> 1, linux_do |-> 0]
    /\ response = NoResponse
    /\ check_in_result = NoResult
    /\ cdk_generator = NoGenerator
    /\ topup_results = NoResult
    /\ topup_events = <<>>
    /\ bypass_cookies = "empty"
    /\ browser_headers = NoHeaders
    /\ random_ua = "none"
    /\ common_headers = NoHeaders
    /\ bypass_outcome = "pending"
    /\ browser_open = 0
    /\ results = <<>>
    /\ caller = "none"
    /\ idx = 0
    /\ m_headers = NoHeaders
    /\ m_log = <<>>
    /\ m_ret = NoRet
    /\ topup_count = 0
    /\ lastReq = NoReq
    /\ oauthRet = NoHeaders
    /\ main_report = NoReport

NextFilter == FilterCookies

SpecFilter == InitFilter /\ [][NextFilter]_vars

\* ------------------------------------------- GitHubSignIn.signin on its own
\* The values of a result dict: a string, or a list of strings.
Str(v) == <<"str", v>>
List(vs) == <<"list">> \o vs

\* The query strings the page can end on.
Queries ==
    { <<>>,
      << <<"code", "abc">>, <<"state", "xyz">> >>,
      << <<"state", "xyz">>, <<"code", "abc">> >>,
      << <<"code", "abc">> >>,
      << <<"state", "xyz">> >>,
      << <<"code", "">>, <<"state", "xyz">> >>,
      << <<"code", "abc">>, <<"state", "xyz">>, <<"code", "def">> >>,
      << <<"error", "access_denied">>, <<"state", "xyz">> >> }

Urls == [site : {"github", "provider"}, query : Queries]

ParseNothing(query) == EmptyDict

\* parse_qs(parsed_url.query), line 362: every name with the list of its
\* values; a pair with a blank value is dropped.
RECURSIVE ParseLoop(_, _)
ParseLoop(query, dict) ==
    IF query = <<>> THEN dict
    ELSE LET name == Head(query)[1]
             value == Head(query)[2]
         IN ParseLoop(Tail(query),
                      IF value = "" THEN dict
                      ELSE IF Has(dict, name)
                           THEN [dict EXCEPT ![name] = Append(@, value)]
                           ELSE (name :> List(<<value>>)) @@ dict)

parse_qs(query) == ParseLoop(query, EmptyDict)

\* "code=" in page.url, line 304.
CodeInUrl(url) == \E i \in 1..Len(url.query) : url.query[i][1] = "code"

AnyParams(query_params) == TRUE

\* "code" in query_params, line 365.
HasCode(query_params) == Has(query_params, "code")

HeadersRegardless(detected, headers) == headers

\* lines 344-346 and 368-370: get_browser_headers only after a challenge.
ReturnedHeaders(detected, headers) ==
    IF detected THEN headers ELSE NoHeaders

SigninRet(success, result, headers) ==
    [success |-> success, result |-> result, headers |-> headers,
     returned |-> TRUE]
SigninError(text) == SigninRet(FALSE, "error" :> Str(text), NoHeaders)

signinFixed == <<provider_config, account_config, response, check_in_result,
                 runVars, browser_open, results, methVars, histVars,
                 main_report, cdk_generator, topup_results, topup_events,
                 cookies, origin, user_cookies, mainVars, auxVars>>

\* lines 65-103: the browser, the context and the page; what raises here
\* leaves signin.
SigninStart ==
    /\ pc = "gs_start"
    /\ \/ pc' = "gs_raised"
       \/ pc' = IF signin_st.cache_exists THEN "gs_cache_check"
                ELSE "gs_login"
    /\ UNCHANGED <<signinFixed, signin_st, signin_ret>>

\* lines 103-131: with a cache file, look at the authorization page.  An
\* exception is swallowed, also the one of the click after is_logged_in.
SigninCacheCheck ==
    /\ pc = "gs_cache_check"
    /\ \E logged \in BOOLEAN :
         /\ signin_st' = [signin_st EXCEPT !.is_logged_in = logged]
         /\ pc' = IF logged THEN "gs_callback" ELSE "gs_login"
    /\ UNCHANGED <<signinFixed, signin_ret>>

\* lines 134-248: the credential login.  The page then shows the signed-in
\* account, the login form again, or a pending second factor; the storage
\* state is written at line 242.  An exception of the navigation, the form,
\* or the write returns the error of line 248.
SigninLogin ==
    /\ pc = "gs_login"
    /\ \/ /\ signin_st' = [signin_st EXCEPT !.entered_login = TRUE]
          /\ signin_ret' = SigninError("GitHub sign-in error")
          /\ pc' = "gs_returned"
       \/ \E shows \in {"logged_in", "login_page", "two_factor"} :
            /\ signin_st' = [signin_st EXCEPT !.entered_login = TRUE,
                                              !.shows = shows,
                                              !.cache_saved = TRUE]
            /\ pc' = "gs_authorize"
            /\ UNCHANGED signin_ret
    /\ UNCHANGED signinFixed

\* lines 251-274: the authorization page after the login.
SigninAuthorize ==
    /\ pc = "gs_authorize"
    /\ \/ /\ signin_ret' = SigninError("GitHub authorization approval failed")
          /\ pc' = "gs_returned"
       \/ /\ pc' = "gs_callback"
          /\ UNCHANGED signin_ret
    /\ UNCHANGED <<signinFixed, signin_st>>

\* Where the page can be when the wait of line 284 is over: a page still
\* showing GitHub's login form or second factor stays on GitHub.
UrlsAfterWait(reached) ==
    IF signin_st.shows \in {"login_page", "two_factor"}
    THEN IF reached THEN {}
         ELSE {u \in Urls : u.site = "github" /\ ~CodeInUrl(u)}
    ELSE IF reached THEN {u \in Urls : u.site = "provider"}
    ELSE Urls

\* lines 280-311: wait for the callback URL, look for a Cloudflare page.
\* The except clause only logs; signin goes on either way.
SigninCallback ==
    /\ pc = "gs_callback"
    /\ \E reached \in BOOLEAN :
       \E detected \in (IF reached THEN BOOLEAN ELSE {FALSE}) :
       \E url \in UrlsAfterWait(reached) :
         signin_st' = [signin_st EXCEPT
                         !.callback_reached = reached,
                         !.cloudflare_challenge_detected = detected,
                         !.page_url = url]
    /\ pc' = "gs_read_user"
    /\ UNCHANGED <<signinFixed, signin_ret>>

\* lines 314-332: the user id of localStorage, which is the provider's.
SigninReadUser ==
    /\ pc = "gs_read_user"
    /\ \E api_user \in (IF signin_st.page_url.site = "provider"
                        THEN {"", "1"} ELSE {""}) :
         signin_st' = [signin_st EXCEPT !.api_user = api_user]
    /\ pc' = "gs_finish"
    /\ UNCHANGED <<signinFixed, signin_ret>>

\* lines 334-393: the result.  context.cookies() and get_browser_headers
\* can raise into the except clause of line 390.
SigninFinish ==
    /\ pc = "gs_finish"
    /\ \E kind \in BrowserKinds :
         LET detected == signin_st.cloudflare_challenge_detected
             browser == ReturnedHeaders(detected, BrowserHeaders("oauth", kind))
             query_params == parse_qs(signin_st.page_url.query)
         IN IF signin_st.api_user # ""
            THEN \/ signin_ret' =
                       SigninRet(TRUE,
                                 ("cookies" :> Str("user_cookies"))
                                 @@ ("api_user" :> Str(signin_st.api_user)),
                                 browser)
                 \/ signin_ret' = SigninError("GitHub page navigation error")
            ELSE IF HasCode(query_params)
            THEN \/ signin_ret' = SigninRet(TRUE, query_params, browser)
                 \/ /\ detected
                    /\ signin_ret' =
                         SigninError("GitHub page navigation error")
            ELSE signin_ret' =
                   SigninError("GitHub OAuth failed - no code in callback")
    /\ pc' = "gs_returned"
    /\ UNCHANGED <<signinFixed, signin_st>>

\* One call of signin, with or without a cache file.
InitSignin ==
    /\ signin_st \in {[NoSignin EXCEPT !.cache_exists = c] : c \in BOOLEAN}
    /\ signin_ret = NoSigninRet
    /\ MainIdle
    /\ AuxIdle
    /\ pc = "gs_start"
    /\ provider_config = ProviderConfig("none", TRUE, FALSE, FALSE, TRUE, TRUE)
    /\ account_config = [cookies |-> "none", api_user |-> FALSE,
                         github |-> 1, linux_do |-> 0]
    /\ response = NoResponse
    /\ check_in_result = NoResult
    /\ cdk_generator = NoGenerator
    /\ topup_results = NoResult
    /\ topup_events = <<>>
    /\ cookies = <<>>
    /\ origin = NoOrigin
    /\ user_cookies = EmptyDict
    /\ bypass_cookies = "empty"
    /\ browser_headers = NoHeaders
    /\ random_ua = "none"
    /\ common_headers = NoHeaders
    /\ bypass_outcome = "pending"
    /\ browser_open = 0
    /\ results = <<>>
    /\ caller = "none"
    /\ idx = 0
    /\ m_headers = NoHeaders
    /\ m_log = <<>>
    /\ m_ret = NoRet
    /\ topup_count = 0
    /\ lastReq = NoReq
    /\ oauthRet = NoHeaders
    /\ main_report = NoReport

NextSignin ==
    \/ SigninStart
    \/ SigninCacheCheck
    \/ SigninLogin
    \/ SigninAuthorize
    \/ SigninCallback
    \/ SigninReadUser
    \/ SigninFinish

SpecSignin == InitSignin /\ [][NextSignin]_vars

\* ------------------------------------------------------------- properties
ResultLabels == [i \in 1..Len(results) |-> results[i].label]

\* The labels execute appends for an account, in the order of its blocks.
ExpectedLabels(a) ==
    (IF a.cookies # "none" THEN <<"cookies">> ELSE <<>>)
    \o [i \in 1..a.github |-> Label("github", i - 1, a.github)]
    \o [i \in 1..a.linux_do |-> Label("linux.do", i - 1, a.linux_do)]

IsPrefix(s, t) ==
    /\ Len(s) <= Len(t)
    /\ \A i \in 1..Len(s) : s[i] = t[i]

\* The call of execute is over: it raised, or it handed its list to main.
ExecuteRaised == pc = "raised"
ExecuteReturned == pc = "main_account"

\* The bypass phase ended without a defense cookie.
NoCookieOutcomes == {"waf_none", "waf_raised", "cf_none", "cf_raised"}

\* C1: in every run of execute each configured method (cookies, then the
\* GitHub sub-accounts in order, then the Linux.do ones) appends exactly one
\* entry, in that order, and when the run is over the list has one entry per
\* configured method.
C1_EveryMethodAttempted ==
    /\ IsPrefix(ResultLabels, ExpectedLabels(account_config))
    /\ (ExecuteRaised \/ ExecuteReturned)
         => ResultLabels = ExpectedLabels(account_config)

\* C2: execute never lets an exception escape; a failed bypass phase
\* leaves the bypass cookies empty.
C2_ExecuteNeverRaises ==
    /\ ~ExecuteRaised
    /\ bypass_outcome \in NoCookieOutcomes => bypass_cookies = "empty"

\* C3: when the bypass acquirer (either strategy) obtained no defense
\* cookie, the run goes on with empty bypass cookies, is not aborted, and
\* attempts every configured method.
C3_ContinuesWithoutCookie ==
    bypass_outcome \in NoCookieOutcomes =>
        /\ bypass_cookies = "empty"
        /\ ~ExecuteRaised
        /\ ExecuteReturned => ResultLabels = ExpectedLabels(account_config)

\* ---- ordering (C4)
LogIdx(e) == {i \in 1..Len(m_log) : m_log[i] = e}
AllBefore(A, B) == \A i \in A, j \in B : i < j
Min1(S) == CHOOSE i \in S : \A j \in S : i <= j
SigninDone == LogIdx("signin") # {}

BypassDone == bypass_outcome \notin {"pending", "running"} /\ browser_open = 0
MethodStarted == caller # "none" \/ Len(results) > 0

\* Where the check-in happens: the POST of execute_check_in, or, for a
\* provider without an explicit call, the user-info fetch that triggers it.
CheckInIdx ==
    LogIdx("checkin")
    \cup (IF needs_manual_check_in(provider_config) THEN {}
          ELSE LogIdx("userinfo"))

\* C4 as stated: for every provider profile and method, bypass acquisition
\* completes before any authentication step, the sign-in before the check-in,
\* the check-in before the first top-up, every top-up before the final
\* user-info fetch.
C4_StepOrder ==
    /\ MethodStarted => BypassDone
    /\ AllBefore(LogIdx("signin"), CheckInIdx)
    /\ AllBefore(CheckInIdx, LogIdx("topup"))
    /\ AllBefore(LogIdx("topup"), LogIdx("userinfo"))

\* C4 amended: the order bypass, sign-in, check-in POST, top-ups, user-info
\* holds for providers with an explicit check-in call; for a provider
\* without one no check-in POST is made and the check-in (a side effect of
\* the user-info fetch) comes last, after the top-ups.
C4_StepOrderAmended ==
    /\ MethodStarted => BypassDone
    /\ AllBefore(LogIdx("signin"),
                 LogIdx("checkin") \cup LogIdx("topup") \cup LogIdx("userinfo"))
    /\ AllBefore(LogIdx("checkin"), LogIdx("topup"))
    /\ AllBefore(LogIdx("topup"), LogIdx("userinfo"))
    /\ LogIdx("userinfo") \subseteq {Len(m_log)}
    /\ ~needs_manual_check_in(provider_config) =>
         /\ LogIdx("checkin") = {}
         /\ AllBefore(LogIdx("topup"), CheckInIdx)

\* The method's log from its sign-in on, without the steps of the
\* client-id and auth-state discovery.
FromSignin(e) == e \notin {"client_id_config", "client_id_discovery",
                           "auth_state"}
LogFromSignin == SelectSeq(m_log, FromSignin)

C4_Witness ==
    /\ pc = "m_return"
    /\ provider_config.bypass_method = "cf_clearance"
    /\ LogFromSignin = <<"signin", "checkin", "topup", "topup", "userinfo">>

\* ---- partial success (C5)
InSeq(x, seq) == \E k \in 1..Len(seq) : seq[k] = x

MixedOutcome ==
    \E i, j \in 1..Len(results) : ~results[i].success /\ results[j].success

\* C5: when one method of an account failed and another succeeded, the list
\* execute returned holds both, and main counts the successful one, lists
\* the failed one with its error text, and reports the account neither as
\* fully failed nor as fully successful.
C5_PartialSuccess ==
    main_report.state \in {"account_done", "exited"} =>
      \A i, j \in 1..Len(results) :
        (~results[i].success /\ results[j].success) =>
          /\ ResultLabels = ExpectedLabels(account_config)
          /\ InSeq(results[j].label, main_report.successful_methods)
          /\ ~InSeq(results[i].label, main_report.successful_methods)
          /\ InSeq([label |-> results[i].label,
                    error |-> IF results[i].detail = "error" THEN "error"
                              ELSE "Unknown error"],
                   main_report.failed_methods)
          /\ main_report.account_success
          /\ main_report.need_notify
          /\ 0 < main_report.success_count
          /\ main_report.success_count < main_report.total_count
          /\ main_report.state = "exited" =>
               /\ main_report.summary = "some_successful"
               /\ main_report.exit_code = 0

C5_Witness ==
    /\ main_report.state = "exited"
    /\ MixedOutcome
    /\ Len(results) = 3

\* ---- fingerprint headers (C6 - C9)
HeaderSetsInUse ==
    {common_headers, m_headers, [ua |-> lastReq.ua, ch |-> lastReq.ch]}

\* C6: a header set that has Client-Hint headers never has a randomly
\* generated User-Agent: a captured fingerprint is never mixed with a
\* freshly generated User-Agent.
C6_FingerprintConsistency ==
    \A h \in HeaderSetsInUse : h.ch # "none" => h.ua \notin RandomUAs

C6_Witness ==
    /\ lastReq.host = "provider"
    /\ lastReq.ch = "cf_hints"
    /\ SigninDone
    /\ topup_count > 0

\* C7 as stated: without a fingerprint from the bypass phase, every request
\* sent to the provider carries the one random User-Agent of the run.
C7_OneRandomUA ==
    random_ua # "none" =>
      /\ common_headers.ua = random_ua
      /\ lastReq.host = "provider" => lastReq.ua = random_ua

\* The User-Agent a request to the provider is expected to carry when
\* the run drew the random User-Agent rnd.
ExpectedUA(rnd) ==
    IF SigninDone /\ oauthRet # NoHeaders THEN oauthRet.ua ELSE rnd

\* C7 amended: without a fingerprint from the bypass phase one random
\* User-Agent is generated, the shared header set keeps it for the whole run,
\* and every request to the provider carries it, except the requests of an
\* OAuth method after its sign-in returned fingerprint headers, which carry
\* the returned User-Agent; a request to a reward-code source carries the
\* source's own User-Agent.
C7_OneRandomUAAmended ==
    [][ random_ua # "none" =>
          /\ random_ua' = random_ua
          /\ common_headers' = common_headers
          /\ common_headers = [ua |-> random_ua, ch |-> "none"]
          /\ lastReq'.host = "provider" => lastReq'.ua = ExpectedUA(random_ua)'
          /\ lastReq'.host = "cdk" => lastReq'.ua = CdkHeaders.ua
      ]_vars

C7_Witness ==
    /\ random_ua # "none"
    /\ lastReq.host = "provider"
    /\ lastReq.ua = random_ua
    /\ SigninDone
    /\ Len(results) > 0

\* The cf_clearance strategy ended without the cf_clearance cookie.
CfFailed == bypass_outcome \in {"cf_none", "cf_raised"}
HeadersBuilt == common_headers # NoHeaders

Carries(req, h) == req.ua = h.ua /\ (h.ch # "none" => req.ch = h.ch)

\* C9 as stated: once a sign-in returned fingerprint headers, every later
\* request of the account run to the provider carries them.
C9_AllSubsequentCalls ==
    (oauthRet # NoHeaders /\ lastReq.host = "provider")
        => Carries(lastReq, oauthRet)

\* C9 amended: once the sign-in of an OAuth method returned fingerprint
\* headers, every later request of that same method to the provider (code
\* exchange, status, check-in, top-up, user-info) carries them; the methods
\* that follow start again from the shared header set.
C9_SameMethodCalls ==
    /\ (SigninDone /\ oauthRet # NoHeaders /\ lastReq.host = "provider")
         => Carries(lastReq, oauthRet)
    /\ (~SigninDone /\ lastReq.host = "provider")
         => Carries(lastReq, common_headers)

C9_Witness ==
    /\ SigninDone
    /\ oauthRet = BrowserHeaders("oauth", "chromium")
    /\ lastReq.host = "provider"
    /\ topup_count > 0
    /\ m_log[Len(m_log)] = "userinfo"

\* ---- execute_check_in (C10)
Occurs(piece, text) == \E i \in DOMAIN text : text[i] = piece

\* The message of a JSON body: its "message" field, "msg" without one.
MessageOf(b) ==
    IF "message" \in DOMAIN b THEN b["message"]
    ELSE IF "msg" \in DOMAIN b THEN b["msg"] ELSE <<>>

JsonSaysDone(b) ==
    \/ ("success" \in DOMAIN b /\ b["success"] = TRUE)
    \/ ("ret" \in DOMAIN b /\ b["ret"] = 1)
    \/ ("code" \in DOMAIN b /\ b["code"] = 0)
    \/ Occurs(PhraseAlready, MessageOf(b))
    \/ Occurs(PhraseSucceeded, MessageOf(b))

TextSaysSuccess(text) ==
    \E i \in DOMAIN text : text[i] \in {"success", "Success", "SUCCESS"}

ShouldSucceed(r) ==
    /\ r.status \in {200, 400}
    /\ IF r.is_json THEN JsonSaysDone(r.json) ELSE TextSaysSuccess(r.text)

\* The call of execute_check_in is over, and how it ended.
CheckInOver == pc = "check_in_returned"
CheckInRaised == "raised" \in DOMAIN check_in_result
CheckInSucceeded ==
    "success" \in DOMAIN check_in_result /\ check_in_result["success"]
CheckInFailed ==
    "success" \in DOMAIN check_in_result /\ ~check_in_result["success"]

\* The body passes the success test but its data is null.
NullData(r) ==
    /\ r.status \in {200, 400} /\ r.is_json /\ JsonSaysDone(r.json)
    /\ "data" \in DOMAIN r.json /\ r.json["data"] = "null"

\* The two scenarios: an "already checked in" answer, and HTTP 400 with
\* {"ret": 1, "message": <check-in succeeded>}.
CheckInScenarios ==
    /\ (response.status \in {200, 400} /\ response.is_json
          /\ Occurs(PhraseAlready, MessageOf(response.json)))
         => CheckInSucceeded
    /\ (response.status = 400 /\ response.is_json
          /\ response.json = ("ret" :> 1) @@ ("message" :> <<PhraseSucceeded>>))
         => /\ CheckInSucceeded
            /\ check_in_result["message"] = <<PhraseSucceeded>>

\* The texts of a JSON body that the claim calls "the message".
BodyMessages(b) ==
    {b[k] : k \in {"message", "msg"} \cap DOMAIN b}

ExpectedError(r) ==
    IF r.status \notin {200, 400} THEN <<"HTTP " \o ToString(r.status)>>
    ELSE IF ~r.is_json THEN <<"Invalid response format">>
    ELSE IF "msg" \in DOMAIN r.json THEN r.json["msg"]
    ELSE IF "message" \in DOMAIN r.json THEN r.json["message"]
    ELSE <<"Unknown error">>

StatusSaidDone == LogIdx("checked_in_today") # {}

\* C11 as stated: when the status query reports that the account already
\* checked in today, no check-in POST is issued and the flow goes straight to
\* the user-info fetch.
C11_StraightToUserInfo ==
    StatusSaidDone =>
      /\ LogIdx("checkin") = {}
      /\ LogIdx("topup") = {}
      /\ pc \in {"cic_user_info", "m_return"}
      /\ lastReq.host = "provider"

\* C11 amended: when the status query reports that the account already
\* checked in today, no check-in POST is issued; the flow goes on with the
\* reward redemption loop when the provider needs manual top-up, and
\* otherwise straight to the user-info fetch.
C11_SkipsCheckIn ==
    StatusSaidDone =>
      /\ LogIdx("checkin") = {}
      /\ LogIdx("checked_in_today") = {Min1(LogIdx("checked_in_today"))}
      /\ AllBefore(LogIdx("checked_in_today"),
                   LogIdx("topup") \cup LogIdx("userinfo"))
      /\ IF needs_manual_topup(provider_config)
         THEN pc \in {"cic_cdk", "cic_topup", "cic_user_info", "m_return"}
         ELSE /\ pc \in {"cic_user_info", "m_return"}
              /\ LogIdx("topup") = {}
              /\ lastReq.host = "provider"

C11_Witness ==
    /\ pc = "m_return"
    /\ ~needs_manual_topup(provider_config)
    /\ LogIdx("checked_in_today") # {}
    /\ m_log[Len(m_log)] = "userinfo"
    /\ m_ret.success

\* ---- short circuits of check_in_with_cookies (C12, C13, C15)
NoLaterStep(log) ==
    \A i \in 1..Len(log) : log[i] \notin {"topup", "userinfo"}

\* The method is over: the next step hands one entry to execute and sends
\* nothing more.
ReturnsAtOnce ==
    pc = "m_return" =>
      /\ lastReq' = NoReq
      /\ m_log' = <<>>
      /\ Len(results') = Len(results) + 1
      /\ ~m_ret.success => ~results'[Len(results')].success

\* C12: when the explicit check-in call fails, check_in_with_cookies
\* returns a failure for the method at once; no top-up submission and no
\* user-info fetch is made afterwards for that method.
C12_CheckInFailureReturns ==
    [][ /\ pc = "cic_check_in" =>
             \/ /\ pc' = "m_return"
                /\ ~m_ret'.success
                /\ m_ret'.detail = "error"
                /\ m_ret'.via # "raise"
                /\ NoLaterStep(m_log')
             \/ /\ pc' # "m_return"
                /\ m_ret' = NoRet
        /\ ReturnsAtOnce
      ]_vars

C12_Witness ==
    /\ pc = "m_return"
    /\ LogFromSignin = <<"signin", "checkin">>
    /\ m_ret = Fail("error")
    /\ needs_manual_topup(provider_config)

\* A step of the top-up submission, and of the method's return.
TopupFailureStep ==
    /\ (pc = "cic_topup") =>
         ( \/ /\ pc' = "m_return"
              /\ m_ret' \in {Fail("error"), Caught}
              /\ \A i \in 1..Len(m_log') : m_log'[i] # "userinfo"
           \/ /\ pc' = "cic_cdk"
              /\ m_ret' = NoRet )
    /\ ReturnsAtOnce
    /\ (pc = "m_return") => (pc' \in {"github_block", "linuxdo_block"})

CicSteps == {"cic_status", "cic_check_in", "cic_status2", "cic_cdk",
             "cic_topup", "cic_user_info"}

LastEvent == topup_events[Len(topup_events)]
SubmissionFailed ==
    /\ Len(topup_events) > 0
    /\ LastEvent.op = "topup"
    /\ ~topup(LastEvent.reply, LastEvent.key)["success"]

\* C14: whenever a top-up submission fails (business error, unexpected HTTP
\* status, unparsable body, exception), the error that execute_topup
\* reports, which check_in_with_cookies hands on as the method's error
\* detail, includes the code that was submitted.
C14_ErrorNamesCode ==
    SubmissionFailed => Contains(topup_results.error, LastEvent.key)

\* The producer of the run, the pairs read so far, and the submissions made.
Items == cdk_generator.items
Consumed == cdk_generator.consumed
TopupReturned == pc = "topup_returned"
SubmitIdx == {i \in 1..Len(topup_events) : topup_events[i].op = "topup"}
FailedSubmitIdx ==
    {i \in SubmitIdx :
       ~topup(topup_events[i].reply, topup_events[i].key)["success"]}
CodeIdx(n) == {i \in 1..n : Submits(Items[i])}
FinalFailure == <<FALSE, "error" :> <<"x">>>>
EndsInFailure == Len(Items) > 0 /\ Items[Len(Items)] = FinalFailure

\* C16: for a producer sequence ending in (False, {"error": "x"}),
\* execute_topup stops at that element and reports success=False and
\* error="x", with topup_count the number of non-empty codes submitted
\* before the stop.
C16_StopsAtFinalElement ==
    (TopupReturned /\ EndsInFailure) =>
       /\ Consumed = Len(Items)
       /\ ~topup_results.success
       /\ topup_results.error = <<"x">>
       /\ topup_results.topup_count = Cardinality(CodeIdx(Len(Items)))

\* C16 as the code has it: the loop stops at the first pair that is a
\* failure or whose submission fails, reports success=False with that
\* failure's error, and counts the submissions made up to and including
\* the stop; it reaches the final pair and reports "x" when no earlier pair
\* is a failure and no submission failed.
C16_StopsAtFirstFailure ==
    (TopupReturned /\ EndsInFailure) =>
       /\ Consumed \in 1..Len(Items)
       /\ ~topup_results.success
       /\ topup_results.topup_count = Cardinality(CodeIdx(Consumed))
       /\ topup_results.topup_count = Cardinality(SubmitIdx)
       /\ \A i \in 1..(Consumed - 1) : Items[i][1]
       /\ FailedSubmitIdx \subseteq {Len(topup_events)}
       /\ IF FailedSubmitIdx # {}
          THEN /\ Submits(Items[Consumed])
               /\ topup_results.error =
                    topup(LastEvent.reply, LastEvent.key)["error"]
          ELSE /\ ~Items[Consumed][1]
               /\ topup_results.error =
                    GetOr(Items[Consumed][2], "error", <<"Failed to get CDK">>)
       /\ ( (FailedSubmitIdx = {} /\ \A i \in 1..(Len(Items) - 1) : Items[i][1])
            => (Consumed = Len(Items) /\ topup_results.error = <<"x">>) )

C16_Witness ==
    /\ TopupReturned
    /\ EndsInFailure
    /\ Consumed = Len(Items)
    /\ topup_results.topup_count = 2
    /\ topup_results.error = <<"x">>
    /\ ~topup_results.success

\* The waits and the submissions alternate, starting with a submission.
CooldownBetween ==
    \A i \in 1..Len(topup_events) :
       /\ (i = 1 => topup_events[i].op = "topup")
       /\ (topup_events[i].op = "topup" /\ i > 1
             => topup_events[i - 1].op = "sleep")
       /\ (topup_events[i].op = "sleep"
             => /\ topup_events[i].secs = TopupInterval
                /\ i > 1 /\ topup_events[i - 1].op = "topup"
                /\ i < Len(topup_events) /\ topup_events[i + 1].op = "topup")

EmptyCode(item) == item[1] /\ GetOr(item[2], "code", "") = ""

\* The loop reads an (ok=True, empty code) pair.
EmptyCodeStep ==
    (pc = "topup_loop" /\ Consumed < Len(Items)
       /\ EmptyCode(Items[Consumed + 1]))
    => ( /\ topup_events' = topup_events
         /\ topup_count' = topup_count
         /\ topup_results' = topup_results
         /\ cdk_generator'.consumed = Consumed + 1
         /\ pc' = "topup_loop" )

\* C17: in the Reward Redemption Loop one cooldown wait of the fixed
\* interval lies between every two successive submissions and none before
\* the first; an (ok=True, empty code) pair causes no submission, no wait
\* and no counter change, and the loop goes on to the next pair.
C17_CooldownBetweenSubmissions ==
    []CooldownBetween /\ [][EmptyCodeStep]_vars

C17_Witness ==
    /\ Len(topup_events) = 3
    /\ topup_events[2].op = "sleep"
    /\ Consumed = 3
    /\ EmptyCode(Items[2])
    /\ topup_results.topup_count = 2

\* What the endpoint's answer says, read off the answer itself: the top-up
\* went through, the code was already used, or the submission failed.
UsedMarks == {PhraseBeenUsed, PhraseUsed, "Already", "already"}
ReplyAccepted(reply) ==
    /\ reply.kind = "response" /\ reply.status \in {200, 400} /\ reply.is_json
    /\ Has(reply.json, "success") /\ reply.json["success"]
ReplySaysUsed(reply) ==
    /\ reply.kind = "response" /\ reply.status \in {200, 400} /\ reply.is_json
    /\ ~ReplyAccepted(reply)
    /\ Has(reply.json, "message")
    /\ \E i \in 1..Len(reply.json["message"]) :
          reply.json["message"][i] \in UsedMarks
ReplyFailed(reply) == ~ReplyAccepted(reply) /\ ~ReplySaysUsed(reply)

\* A step of the loop that submitted a code.
SubmissionStep ==
    (pc = "topup_loop" /\ Len(topup_events') > Len(topup_events)) =>
       LET e == topup_events'[Len(topup_events')]
       IN /\ e.op = "topup"
          /\ topup_results'.topup_count = topup_results.topup_count + 1
          /\ ReplySaysUsed(e.reply) =>
               ( /\ topup_results'.topup_success_count =
                      topup_results.topup_success_count + 1
                 /\ topup_results'.success = topup_results.success
                 /\ topup_results'.error = topup_results.error
                 /\ pc' = "topup_loop" )
          /\ ReplyFailed(e.reply) =>
               ( /\ topup_results'.topup_success_count =
                      topup_results.topup_success_count
                 /\ ~topup_results'.success
                 /\ topup_results'.error # <<>>
                 /\ pc' = "topup_after" )

\* A failed submission is the last entry of the event log, and the call
\* reports failure.
NothingAfterFailure ==
    \A i \in SubmitIdx :
       ReplyFailed(topup_events[i].reply) =>
          (i = Len(topup_events) /\ pc # "topup_loop"
             /\ ~topup_results.success)

\* C18: an answer saying the code was already used counts as a successful
\* submission and the loop goes on to the next code; any other failed
\* submission stops the loop at once, no later code is submitted, and it
\* is the failure execute_topup reports.
C18_AlreadyUsedIsSuccess ==
    [][SubmissionStep]_vars /\ []NothingAfterFailure

C18_Witness ==
    /\ TopupReturned
    /\ Len(topup_events) = 3
    /\ ReplySaysUsed(topup_events[1].reply)
    /\ topup_events[3].op = "topup"
    /\ ReplyFailed(topup_events[3].reply)
    /\ topup_results.topup_success_count = 1
    /\ Consumed < Len(Items)

\* The answers the endpoint gave in the run, in order.
RECURSIVE RepliesOf(_)
RepliesOf(events) ==
    IF events = <<>> THEN <<>>
    ELSE IF Head(events).op = "topup"
         THEN <<Head(events).reply>> \o RepliesOf(Tail(events))
         ELSE RepliesOf(Tail(events))

\* What a loop over the pairs items[i..] yields for the given answers,
\* whatever the kind of the producer: read pairs until one is a failure
\* or its submission fails, waiting before every submission but the first.
RECURSIVE Replay(_, _, _, _)
Replay(items, replies, i, st) ==
    IF i > Len(items) THEN st
    ELSE LET item == items[i]
             read == [st EXCEPT !.consumed = i]
         IN IF ~item[1]
            THEN [read EXCEPT !.results.success = FALSE,
                              !.results.error =
                                 GetOr(item[2], "error", <<"Failed to get CDK">>)]
            ELSE IF ~Submits(item)
            THEN Replay(items, replies, i + 1, read)
            ELSE LET n == st.results.topup_count + 1
                 IN IF n > Len(replies)
                    THEN [read EXCEPT !.answered = FALSE]
                    ELSE LET code == item[2]["code"]
                             ev == (IF n > 1 THEN <<SleepEvent>> ELSE <<>>)
                                   \o <<TopupEvent(code, replies[n])>>
                             res == topup(replies[n], code)
                             after == [read EXCEPT !.events = @ \o ev,
                                                   !.results.topup_count = n]
                         IN IF res["success"]
                            THEN Replay(items, replies, i + 1,
                                   [after EXCEPT
                                      !.results.topup_success_count = @ + 1])
                            ELSE [after EXCEPT !.results.success = FALSE,
                                               !.results.error = res["error"]]

ReplayStart == [results |-> InitResults, events |-> <<>>, consumed |-> 0,
                answered |-> TRUE]

\* C19: execute_topup behaves the same for a synchronous and an
\* asynchronous producer: what it returns, the submissions and waits it
\* makes and the number of pairs it reads are determined by the pairs and
\* the endpoint's answers alone.
C19_SameForSyncAndAsync ==
    TopupReturned =>
       [results |-> topup_results, events |-> topup_events,
        consumed |-> Consumed, answered |-> TRUE]
         = Replay(Items, RepliesOf(topup_events), 1, ReplayStart)

C19_Witness ==
    /\ TopupReturned
    /\ cdk_generator.is_async
    /\ Len(topup_events) = 3
    /\ ~topup_results.success
    /\ Consumed < Len(Items)

\* The cookie's domain, its leading dot ignored, is the host of the
\* origin, a parent of it, or a subdomain of it.
IsParent(d, h) ==
    /\ Len(d) > 0 /\ Len(d) < Len(h)
    /\ \A i \in 1..Len(d) : d[i] = h[Len(h) - Len(d) + i]
DomainOf(cookie) == cookie.domain.labels
Matching(cookie) ==
    \/ DomainOf(cookie) = origin.host
    \/ IsParent(DomainOf(cookie), origin.host)
    \/ IsParent(origin.host, DomainOf(cookie))
FilterReturned == pc = "filter_returned"
Kept(cookie) ==
    Has(user_cookies, cookie.name) /\ user_cookies[cookie.name] = cookie.value

\* C20: filter_cookies(cookies, origin) returns exactly the cookies whose
\* domain (a leading dot ignored) is equal to, a parent of, or a subdomain
\* of the host of origin: every such cookie is in the result and nothing
\* else is.
C20_ExactlyMatchingCookies ==
    FilterReturned =>
       /\ \A i \in 1..Len(cookies) : Matching(cookies[i]) => Kept(cookies[i])
       /\ \A n \in DOMAIN user_cookies :
            \E i \in 1..Len(cookies) :
               /\ Matching(cookies[i])
               /\ cookies[i].name = n
               /\ cookies[i].value = user_cookies[n]

\* The part of C20 that holds: for an origin without a port and a list of
\* cookies with non-empty values and distinct names, the result is exactly
\* the matching cookies.
WellFormedCookies ==
    /\ \A i \in 1..Len(cookies) : cookies[i].value # ""
    /\ \A i, j \in 1..Len(cookies) :
          cookies[i].name = cookies[j].name => i = j
ExactWithoutPort ==
    (WellFormedCookies /\ origin.port = "") => C20_ExactlyMatchingCookies

\* signin returned, and what the page's URL carried.
SigninReturned == pc = "gs_returned"
NoUserId == signin_st.api_user = ""
FinalQuery == signin_st.page_url.query
Carried(name, value) ==
    \E i \in 1..Len(FinalQuery) : FinalQuery[i] = <<name, value>>
CodeValues == {"abc", "def"}
StateValues == {"xyz"}

\* C21: when no user id is readable from localStorage but the final URL
\* carries code=c and state=s, signin returns (True, result, headers or
\* None) with result["code"] the string c and result["state"] the string s.
C21_CodeAndStateAsStrings ==
    \A c \in CodeValues, st \in StateValues :
       (SigninReturned /\ NoUserId /\ Carried("code", c)
          /\ Carried("state", st))
       => /\ signin_ret.success
          /\ Has(signin_ret.result, "code")
          /\ Has(signin_ret.result, "state")
          /\ signin_ret.result["code"] = Str(c)
          /\ signin_ret.result["state"] = Str(st)

\* The non-blank values a name has in the final query, in order.
ValuesOf(name) ==
    LET sel == SelectSeq(FinalQuery,
                         LAMBDA pair : pair[1] = name /\ pair[2] # "")
    IN [i \in 1..Len(sel) |-> sel[i][2]]
NamesWithValue ==
    {FinalQuery[i][1] : i \in {j \in 1..Len(FinalQuery) :
                                  FinalQuery[j][2] # ""}}
ChallengeSeen == signin_st.cloudflare_challenge_detected

\* C21 as the code has it: with no user id and a non-blank code in the
\* final URL, signin returns (True, query_params, headers or None), where
\* query_params maps every parameter of the URL to the list of its
\* non-blank values ({"code": ["abc"], "state": ["xyz"]}); only when a
\* challenge was seen and reading the fingerprint raises does it return
\* (False, {error}, None).
C21_CodeAndStateAsLists ==
    (SigninReturned /\ NoUserId /\ \E c \in CodeValues : Carried("code", c))
    => \/ /\ signin_ret.success
          /\ DOMAIN signin_ret.result = NamesWithValue
          /\ \A name \in NamesWithValue :
                signin_ret.result[name] = List(ValuesOf(name))
          /\ (~ChallengeSeen => signin_ret.headers = NoHeaders)
       \/ /\ ChallengeSeen
          /\ ~signin_ret.success
          /\ Has(signin_ret.result, "error")
          /\ signin_ret.headers = NoHeaders

C21_Witness ==
    /\ SigninReturned
    /\ NoUserId
    /\ FinalQuery = << <<"code", "abc">>, <<"state", "xyz">> >>
    /\ signin_ret.success
    /\ signin_ret.result["code"] = List(<<"abc">>)
    /\ signin_ret.result["state"] = List(<<"xyz">>)

\* C22: signin returns fingerprint headers only when a Cloudflare challenge
\* was observed during the call; when none was observed, and on every
\* failure, the third component of what it returns is None.
C22_HeadersOnlyAfterChallenge ==
    /\ (signin_ret.headers # NoHeaders
          => (ChallengeSeen /\ signin_ret.success))
    /\ ((SigninReturned /\ (~ChallengeSeen \/ ~signin_ret.success))
          => signin_ret.headers = NoHeaders)

C22_Witness ==
    /\ SigninReturned
    /\ ChallengeSeen
    /\ signin_ret.success
    /\ signin_ret.headers = BrowserHeaders("oauth", "firefox")
    /\ signin_st.api_user # ""

\* How the call went: the login form was still showing after the submit;
\* the wait for the callback URL ended without it and the URL has no code.
LoginPageShowing == signin_st.shows = "login_page"
WaitedForCallback == signin_st.page_url # NoUrl
CallbackMissed ==
    /\ WaitedForCallback
    /\ ~signin_st.callback_reached
    /\ ~CodeInUrl(signin_st.page_url)
SigninFailed ==
    /\ ~signin_ret.success
    /\ Has(signin_ret.result, "error")
    /\ signin_ret.headers = NoHeaders

\* C23: signin returns (False, {error}, None), never success, for every
\* unrecoverable outcome: the login page still showing after the submit, an
\* error during login or authorization, and the callback URL never
\* reached with no code in the URL.
C23_UnrecoverableFails ==
    SigninReturned =>
       /\ (LoginPageShowing => SigninFailed)
       /\ (CallbackMissed => SigninFailed)
       /\ (~WaitedForCallback => SigninFailed)

\* C23 as the code has it: a missed callback is only logged.  signin fails
\* when login or authorization raised, and when in the end neither a user
\* id is readable from localStorage nor the URL has a non-blank code, which
\* is the case of the login page still showing; every failure is
\* (False, {error}, None).  With a user id readable it succeeds although
\* the callback URL was never seen.
C23_FailsWithoutUserAndCode ==
    SigninReturned =>
       /\ (LoginPageShowing => SigninFailed)
       /\ (~WaitedForCallback => SigninFailed)
       /\ ((NoUserId /\ ValuesOf("code") = <<>>) => SigninFailed)
       /\ (~signin_ret.success => SigninFailed)
       /\ (signin_ret.success =>
             (WaitedForCallback
                /\ (~NoUserId \/ ValuesOf("code") # <<>>)))

C23_Witness ==
    /\ SigninReturned
    /\ LoginPageShowing
    /\ CallbackMissed
    /\ SigninFailed
    /\ signin_ret.result["error"] =
         Str("GitHub OAuth failed - no code in callback")

\* C24: whenever signin enters the credential-login branch, the storage
\* state is written to cache_path before signin returns, on every path
\* through the branch, whether the login succeeded or not.
C24_CacheAlwaysSaved ==
    (SigninReturned /\ signin_st.entered_login) => signin_st.cache_saved

\* The part of C24 that holds: when the login steps ran to their end, the
\* storage state was written before anything else happened, whatever the
\* page then showed.
SavedUnlessLoginRaised ==
    (signin_st.entered_login /\ signin_st.shows # "none")
    => signin_st.cache_saved

\* The steps of an OAuth method, by their entries in the method's log.
OAuthMethod == caller \in {"github", "linux.do"}
ProfileHasClientId ==
    \/ (caller = "github" /\ provider_config.github_client_id)
    \/ (caller = "linux.do" /\ provider_config.linuxdo_client_id)
ClientIdIdx == LogIdx("client_id_config") \cup LogIdx("client_id_discovery")
BootstrapIdx ==
    LogIdx("checkin") \cup LogIdx("topup") \cup LogIdx("userinfo")

\* The chain: one client-id resolution, then one auth-state discovery, then
\* the sign-in, then the session's calls.
OAuthChain ==
    OAuthMethod =>
       /\ Cardinality(ClientIdIdx) <= 1
       /\ Cardinality(LogIdx("auth_state")) <= 1
       /\ Cardinality(LogIdx("signin")) <= 1
       /\ AllBefore(ClientIdIdx, LogIdx("auth_state"))
       /\ AllBefore(LogIdx("auth_state"), LogIdx("signin"))
       /\ AllBefore(LogIdx("signin"), BootstrapIdx)
       /\ (LogIdx("auth_state") # {} => ClientIdIdx # {})
       /\ (LogIdx("signin") # {} => LogIdx("auth_state") # {})
       /\ (BootstrapIdx # {} => LogIdx("signin") # {})
       /\ (ProfileHasClientId => LogIdx("client_id_discovery") = {})
       /\ (~ProfileHasClientId => LogIdx("client_id_config") = {})

\* The client-id step makes no request when the profile has the id; a
\* failed discovery ends the method before the sign-in and the session.
DiscoveryStep ==
    /\ (pc = "oa_client_id" /\ ProfileHasClientId)
         => (lastReq' = lastReq /\ pc' = "oa_auth_state")
    /\ (pc \in {"oa_client_id", "oa_auth_state"} /\ pc' = "m_return")
         => ( /\ m_ret' = Fail("error")
              /\ \A i \in 1..Len(m_log') :
                    m_log'[i] \notin {"signin", "checkin", "topup", "userinfo"} )

WellFormedEntry(r) ==
    IF r.success THEN r.detail = "user_info" ELSE r.detail = "error"

\* C30: every entry of the list execute returns is well formed: with
\* success True the detail of a successful user-info fetch, with success
\* False an error detail with an "error" message.
C30_EntriesWellFormed ==
    \A i \in 1..Len(results) : WellFormedEntry(results[i])

\* The part of C30 that holds: a success always carries the user-info
\* detail, and only the sign-in's own result is handed back without an
\* "error" message.
SuccessCarriesUserInfo ==
    \A i \in 1..Len(results) :
       /\ results[i].success => results[i].detail = "user_info"
       /\ ~results[i].success => results[i].detail \in {"error", "raw"}

\* ------------------------------------------------ main over all accounts
\* main.py, main() and run_main(): the loop over app_config.accounts, the
\* balance hash, the notification and the exit code.  What CheckIn.execute
\* hands back for an account is an input of the loop step.
MaxAccounts == 2
Quotas == {10, 20}
Labels == <<"cookies", "github", "linux.do">>

\* The third element of a tuple of results, by its shape, with the quota of
\* a successful user-info fetch.
EntryShapes ==
    {[success |-> TRUE, detail |-> "user_info", quota |-> q] : q \in Quotas}
    \cup {[success |-> FALSE, detail |-> d, quota |-> 0] :
             d \in {"error", "raw"}}

\* The lists execute returns: one tuple per configured method.
ExecuteResults ==
    UNION { { [i \in 1..n |-> [label |-> Labels[i],
                               success |-> f[i].success,
                               detail |-> f[i].detail,
                               quota |-> f[i].quota]] :
              f \in [1..n -> EntryShapes] } : n \in 1..MaxMethods }

\* app_config.accounts: for each account whether app_config.get_provider
\* finds its provider.
AccountLists ==
    UNION { [1..n -> [provider_found : BOOLEAN]] : n \in 0..MaxAccounts }

\* main, lines 104-112: this_account_balances, the quota of every method
\* counted as a success, keyed by its label.
AccountBalances(res) ==
    LET ok == SelectSeq(res, CountsAsSuccess)
    IN [i \in 1..Len(ok) |-> [auth_method |-> ok[i].label,
                              quota |-> ok[i].quota]]

\* generate_balance_hash, lines 22-34: the digest of {account_key: [quota]};
\* the digest is taken as the structure it is computed from.
generate_balance_hash(balances) ==
    [none |-> FALSE,
     of |-> [k \in 1..Len(balances) |->
               [account_key |-> balances[k].account_key,
                quota_list |-> [j \in 1..Len(balances[k].balances) |->
                                  balances[k].balances[j].quota]]]]

\* What load_balance_hash can find when the run starts: nothing readable,
\* or the digest a previous run stored.
LastHashes ==
    {NoHash} \cup
    { generate_balance_hash(<<[account_key |-> 1,
                               balances |-> <<[auth_method |-> "cookies",
                                               quota |-> q]>>]>>) :
        q \in Quotas }

\* A comparison that never sees a change.
HashNeverChanged(current, last) == FALSE

\* main, lines 151-160: first run, or the digest differs.
HashChanged(current, last) == last = NoHash \/ current # last

\* A loop that is left at the first account that fails.
AbortAfterError(i, n) == n + 1

\* main, lines 67, 81 and 143-146: continue and the except clause both go
\* on with the next account.
AfterError(i, n) == i + 1

\* main, lines 70-71: the separator before every account but the first.
Separated(content) ==
    IF Len(content) > 0 THEN Append(content, "separator") ELSE content

Visit(kind, res) == [account |-> account_i, kind |-> kind, results |-> res]

mainFixed == <<provider_config, account_config, response, check_in_result,
               cdk_generator, topup_results, topup_events, cookies, origin,
               user_cookies, signin_st, signin_ret, runVars, browser_open,
               results, methVars, histVars, main_report, auxVars>>

\* main, lines 47-59: no account loaded returns 1 to run_main; else the
\* stored hash is read (None for a missing or unreadable file) and the loop
\* starts.
MainLoad ==
    /\ pc = "main_start"
    /\ IF Len(app_config.accounts) = 0
       THEN /\ pc' = "main_returned"
            /\ UNCHANGED <<account_i, last_balance_hash>>
       ELSE /\ pc' = "main_loop"
            /\ account_i' = 1
            /\ last_balance_hash' = balance_hash_file
    /\ UNCHANGED <<mainFixed, app_config, balance_hash_file, success_count,
                   total_count, notification_content, current_balances,
                   need_notify, visited, push_message, exit_code>>

\* main, lines 74-81: the account's provider is not configured.
LoopMissingProvider ==
    /\ pc = "main_loop"
    /\ account_i <= Len(app_config.accounts)
    /\ ~app_config.accounts[account_i].provider_found
    /\ need_notify' = TRUE
    /\ notification_content' =
          Append(Separated(notification_content), "provider_not_found")
    /\ visited' = Append(visited, Visit("no_provider", <<>>))
    /\ account_i' = AfterError(account_i, Len(app_config.accounts))
    /\ UNCHANGED <<mainFixed, pc, app_config, balance_hash_file,
                   last_balance_hash,
                   success_count, total_count, current_balances,
                   push_message, exit_code>>

\* main, lines 84-85 and 143-146: CheckIn(...) or execute raises.
LoopException ==
    /\ pc = "main_loop"
    /\ account_i <= Len(app_config.accounts)
    /\ app_config.accounts[account_i].provider_found
    /\ need_notify' = TRUE
    /\ notification_content' =
          Append(Separated(notification_content), "exception")
    /\ visited' = Append(visited, Visit("exception", <<>>))
    /\ account_i' = AfterError(account_i, Len(app_config.accounts))
    /\ UNCHANGED <<mainFixed, pc, app_config, balance_hash_file,
                   last_balance_hash,
                   success_count, total_count, current_balances,
                   push_message, exit_code>>

\* main, lines 84-141: execute returned its list.
LoopResults ==
    /\ pc = "main_loop"
    /\ account_i <= Len(app_config.accounts)
    /\ app_config.accounts[account_i].provider_found
    /\ \E res \in ExecuteResults :
         LET report == AccountReport(res)
         IN /\ total_count' = total_count + report.total_count
            /\ success_count' = success_count + report.success_count
            /\ current_balances' =
                  IF report.account_success
                  THEN Append(current_balances,
                              [account_key |-> account_i,
                               balances |-> AccountBalances(res)])
                  ELSE current_balances
            /\ need_notify' = (need_notify \/ report.need_notify)
            /\ notification_content' =
                  Append(Separated(notification_content), "account_result")
            /\ visited' = Append(visited, Visit("results", res))
    /\ account_i' = account_i + 1
    /\ UNCHANGED <<mainFixed, pc, app_config, balance_hash_file,
                   last_balance_hash,
                   push_message, exit_code>>

\* main, lines 148-165: the digest of the balances, compared with the
\* stored one and written back; a failed write is swallowed.
MainBalanceHash ==
    /\ pc = "main_loop"
    /\ account_i > Len(app_config.accounts)
    /\ IF Len(current_balances) > 0
       THEN LET current_balance_hash ==
                   generate_balance_hash(current_balances)
            IN /\ need_notify' =
                     (need_notify \/
                      HashChanged(current_balance_hash, last_balance_hash))
               /\ balance_hash_file' \in
                     {current_balance_hash, balance_hash_file}
       ELSE UNCHANGED <<need_notify, balance_hash_file>>
    /\ pc' = "main_notify"
    /\ UNCHANGED <<mainFixed, app_config, last_balance_hash, account_i,
                   success_count,
                   total_count, notification_content, current_balances,
                   visited, push_message, exit_code>>

\* main, lines 167-191: the notification, with its closing line.
MainNotify ==
    /\ pc = "main_notify"
    /\ push_message' =
          IF need_notify /\ Len(notification_content) > 0
          THEN [pushed |-> TRUE,
                summary |-> SummaryLine(success_count, total_count)]
          ELSE push_message
    /\ pc' = "main_sys_exit"
    /\ UNCHANGED <<mainFixed, app_config, balance_hash_file,
                   last_balance_hash, account_i,
                   success_count, total_count, notification_content,
                   current_balances, need_notify, visited, exit_code>>

\* main, line 194: sys.exit raises SystemExit, which neither except clause
\* of run_main catches: the process ends with that code.
MainSysExit ==
    /\ pc = "main_sys_exit"
    /\ exit_code' = [ended |-> "sys_exit",
                     code |-> IF success_count > 0 THEN 0 ELSE 1]
    /\ pc' = "exited"
    /\ UNCHANGED <<mainFixed, app_config, balance_hash_file,
                   last_balance_hash, account_i,
                   success_count, total_count, notification_content,
                   current_balances, need_notify, visited, push_message>>

\* run_main, lines 199-200: asyncio.run(main()) hands back what main
\* returned; run_main drops it and returns, and the interpreter ends with
\* code 0.
RunMainReturns ==
    /\ pc = "main_returned"
    /\ exit_code' = [ended |-> "returned", code |-> 0]
    /\ pc' = "exited"
    /\ UNCHANGED <<mainFixed, app_config, balance_hash_file,
                   last_balance_hash, account_i,
                   success_count, total_count, notification_content,
                   current_balances, need_notify, visited, push_message>>

MainRunning ==
    pc \in {"main_start", "main_loop", "main_notify", "main_sys_exit",
            "main_returned"}

\* run_main, lines 201-203: the run is interrupted.
RunMainInterrupted ==
    /\ MainRunning
    /\ exit_code' = [ended |-> "interrupted", code |-> 1]
    /\ pc' = "exited"
    /\ UNCHANGED <<mainFixed, app_config, balance_hash_file,
                   last_balance_hash, account_i,
                   success_count, total_count, notification_content,
                   current_balances, need_notify, visited, push_message>>

\* run_main, lines 204-206: an exception leaves main, from a statement
\* outside the try block of the loop (loading the configuration, line 47,
\* or pushing the notification, line 189).
RunMainException ==
    /\ pc \in {"main_start", "main_notify"}
    /\ exit_code' = [ended |-> "exception", code |-> 1]
    /\ pc' = "exited"
    /\ UNCHANGED <<mainFixed, app_config, balance_hash_file,
                   last_balance_hash, account_i,
                   success_count, total_count, notification_content,
                   current_balances, need_notify, visited, push_message>>

InitMain ==
    /\ app_config \in {[accounts |-> a] : a \in AccountLists}
    /\ balance_hash_file \in LastHashes
    /\ last_balance_hash = NoHash
    /\ account_i = 0
    /\ success_count = 0
    /\ total_count = 0
    /\ notification_content = <<>>
    /\ current_balances = <<>>
    /\ need_notify = FALSE
    /\ visited = <<>>
    /\ push_message = NoPush
    /\ exit_code = Running
    /\ pc = "main_start"
    /\ provider_config = ProviderConfig("none", TRUE, FALSE, FALSE, TRUE, TRUE)
    /\ account_config = [cookies |-> "none", api_user |-> FALSE,
                         github |-> 1, linux_do |-> 0]
    /\ response = NoResponse
    /\ check_in_result = NoResult
    /\ cdk_generator = NoGenerator
    /\ topup_results = NoResult
    /\ topup_events = <<>>
    /\ cookies = <<>>
    /\ origin = NoOrigin
    /\ user_cookies = EmptyDict
    /\ signin_st = NoSignin
    /\ signin_ret = NoSigninRet
    /\ bypass_cookies = "empty"
    /\ browser_headers = NoHeaders
    /\ random_ua = "none"
    /\ common_headers = NoHeaders
    /\ bypass_outcome = "pending"
    /\ browser_open = 0
    /\ results = <<>>
    /\ caller = "none"
    /\ idx = 0
    /\ m_headers = NoHeaders
    /\ m_log = <<>>
    /\ m_ret = NoRet
    /\ topup_count = 0
    /\ lastReq = NoReq
    /\ oauthRet = NoHeaders
    /\ main_report = NoReport
    /\ AuxIdle

NextMain ==
    \/ MainLoad
    \/ LoopMissingProvider
    \/ LoopException
    \/ LoopResults
    \/ MainBalanceHash
    \/ MainNotify
    \/ MainSysExit
    \/ RunMainReturns
    \/ RunMainInterrupted
    \/ RunMainException

SpecMain == InitMain /\ [][NextMain]_vars

\* The methods attempted in the run, as (account, position) pairs over the
\* lists execute returned, and those that succeeded.
Attempts ==
    {p \in (1..MaxAccounts) \X (1..MaxMethods) :
        p[1] <= Len(visited) /\ p[2] <= Len(visited[p[1]].results)}
Successes == {p \in Attempts : visited[p[1]].results[p[2]].success}

\* The outcome of the run by the results of its methods.
Classification ==
    IF Successes = Attempts THEN "all_successful"
    ELSE IF Successes # {} THEN "some_successful"
    ELSE "all_failed"

\* C26: the run is fully successful iff every attempted method of every
\* account succeeded, partially successful iff some method succeeded but
\* not all, a total failure otherwise; the closing line of the summary is
\* that classification of the per-account, per-method results, and the
\* counts it is computed from are the numbers of attempted and of
\* successful methods.
C26_SummaryMatchesOutcome ==
    /\ total_count = Cardinality(Attempts)
    /\ success_count = Cardinality(Successes)
    /\ push_message.pushed => push_message.summary = Classification

C26_Witness ==
    /\ push_message.pushed
    /\ push_message.summary = "some_successful"
    /\ Len(visited) = 2
    /\ visited[1].kind = "results"
    /\ \A j \in 1..Len(visited[1].results) : visited[1].results[j].success
    /\ visited[2].kind = "results"
    /\ \A j \in 1..Len(visited[2].results) : ~visited[2].results[j].success

\* The exit code the run should end with: 1 when it was interrupted or
\* failed with an exception, else 0 when some method succeeded, else 1.
ExpectedExitCode ==
    IF exit_code.ended \in {"interrupted", "exception"} THEN 1
    ELSE IF Successes # {} THEN 0
    ELSE 1

\* C27: the process exit code is 0 when at least one authentication method
\* of at least one account succeeded and 1 in every other case: all
\* methods failed, no account configuration could be loaded, the run was
\* interrupted or failed with an exception.
C27_ExitCode ==
    exit_code.ended # "running" => exit_code.code = ExpectedExitCode

\* The part of C27 that holds: every run that loaded an account ends with
\* the expected code.
ExitCodeWithAccounts ==
    (exit_code.ended # "running" /\ Len(app_config.accounts) > 0)
    => exit_code.code = ExpectedExitCode

\* A failure in the run: an account without a provider, an account whose
\* processing raised, or a method that failed.
SomeFailure ==
    \/ \E k \in 1..Len(visited) :
          visited[k].kind \in {"no_provider", "exception"}
    \/ Successes # Attempts

\* The balances of the run differ from those the previous run recorded:
\* there is no record, or the digest of the run's balances is another one.
PreviousRecord ==
    IF Len(app_config.accounts) = 0 THEN balance_hash_file
    ELSE last_balance_hash
BalancesDiffer ==
    \/ PreviousRecord = NoHash
    \/ generate_balance_hash(current_balances) # PreviousRecord

\* main ran to its end: it returned or reached sys.exit.
MainEnded == exit_code.ended \in {"returned", "sys_exit"}

\* C28 as stated: at the end of a run the notification was pushed if and
\* only if there was a failure in the run or the balances differ from the
\* previous run's record, the case of no record included.
C28_NotifiedIffFailureOrChange ==
    MainEnded =>
       (push_message.pushed <=> (SomeFailure \/ BalancesDiffer))

\* C28 for the runs that loaded at least one account: the notification is
\* pushed, once the loop and the digest are done and not before, if and
\* only if there was a failure or the balances differ from the record read
\* at the start (no record included); a run without accounts pushes
\* nothing.
C28_NotifiedWithAccounts ==
    /\ exit_code.ended = "sys_exit" =>
          (push_message.pushed <=> (SomeFailure \/ BalancesDiffer))
    /\ push_message.pushed =>
          (pc \in {"main_sys_exit", "exited"} /\ Len(visited) > 0)
    /\ Len(app_config.accounts) = 0 => ~push_message.pushed

\* Every method succeeded and the digest equals the stored one: nothing is
\* pushed.
C28_Witness ==
    /\ exit_code.ended = "sys_exit"
    /\ Len(visited) > 0
    /\ ~SomeFailure
    /\ last_balance_hash # NoHash
    /\ ~BalancesDiffer
    /\ ~push_message.pushed

\* The accounts processed so far are the first ones of the configuration,
\* each once and in its order; once the loop is left all were processed.
VisitedInOrder ==
    /\ Len(visited) <= Len(app_config.accounts)
    /\ \A k \in 1..Len(visited) : visited[k].account = k
    /\ (pc \in {"main_notify", "main_sys_exit"} \/ exit_code.ended = "sys_exit")
         => Len(visited) = Len(app_config.accounts)

\* Whatever happens to an account, a missing provider and an exception
\* included, the loop goes on with the account after it.
LoopStep ==
    (pc = "main_loop" /\ visited' # visited)
    => ( /\ visited' = Append(visited, visited'[Len(visited')])
         /\ visited'[Len(visited')].account = account_i
         /\ account_i' = account_i + 1
         /\ pc' = "main_loop" )

\* C29: the accounts are processed one after another in configuration
\* order; an error while processing account i (missing provider, exception
\* from the CheckIn construction or from execute) never prevents accounts
\* i+1..n from being processed; every configured account is visited
\* exactly once before the run ends.
C29_AccountsInOrder ==
    []VisitedInOrder /\ [][LoopStep]_vars

C29_Witness ==
    /\ exit_code.ended = "sys_exit"
    /\ Len(visited) = 2
    /\ visited[1].kind = "exception"
    /\ visited[2].kind = "results"

\* ------------------------------------------------------- get_user_info
\* checkin.py, CheckIn.get_user_info, lines 671-725.  Amounts are kept in
\* hundredths: 200000 stands for the float 2000.0.
QuotaDivisor == 500000
RawQuotas == {0, 2499, 2500, 2501, 7500, 50000, 123456789, 1000000000}

\* The "data" object of the response: each of the three fields a raw
\* integer, or absent.
UserData ==
    { a @@ b @@ c :
        a \in Opt("quota", RawQuotas),
        b \in Opt("used_quota", {0, 7500}),
        c \in Opt("bonus_quota", {2500}) }

\* What session.get returned: the status and, for a body response_resolve
\* could parse, its success flag and its data.
InfoResponses ==
    [status : {200, 500}, is_json : {TRUE}, success : {TRUE},
     data : UserData]
    \cup
    [status : {200, 500}, is_json : BOOLEAN, success : {FALSE},
     data : {EmptyDict}]

\* The double nearest to raw / 500000 lies above the decimal tie for 2500
\* (0.005) and below it for 7500 (0.015): round() follows the double.
DoubleAboveTie(raw) == raw = 2500

\* A rounding that cuts the digits off.
Truncated(raw) == raw \div (QuotaDivisor \div 100)

\* round(raw / 500000, 2), in hundredths.
Rounded(raw) ==
    LET unit == QuotaDivisor \div 100
        c == raw \div unit
        r == raw % unit
    IN IF 2 * r > unit THEN c + 1
       ELSE IF 2 * r < unit THEN c
       ELSE IF DoubleAboveTie(raw) THEN c + 1 ELSE c

\* str() of a float with at most two decimals, as the f-string prints it:
\* 200000 is "2000.0", 1 is "0.01", 10 is "0.1".
FloatStr(h) ==
    LET whole == h \div 100
        frac == h % 100
    IN ToString(whole) \o "." \o
       (IF frac % 10 = 0 THEN ToString(frac \div 10)
        ELSE IF frac < 10 THEN "0" \o ToString(frac)
        ELSE ToString(frac))

\* lines 699-710: the success dict.
InfoSuccess(user_data) ==
    LET quota == Rounded(GetOr(user_data, "quota", 0))
        used_quota == Rounded(GetOr(user_data, "used_quota", 0))
        bonus_quota == Rounded(GetOr(user_data, "bonus_quota", 0))
    IN [success |-> TRUE, quota |-> quota, used_quota |-> used_quota,
        bonus_quota |-> bonus_quota,
        display |-> <<"Current balance: $" \o FloatStr(quota),
                      "Used: $" \o FloatStr(used_quota),
                      "Bonus: $" \o FloatStr(bonus_quota)>>]

InfoFailure(error) ==
    [success |-> FALSE, quota |-> 0, used_quota |-> 0, bonus_quota |-> 0,
     display |-> <<error>>]

\* lines 673-725.
get_user_info(r) ==
    IF r.status = 200
    THEN IF ~r.is_json THEN InfoFailure("Invalid response type")
         ELSE IF r.success THEN InfoSuccess(r.data)
         ELSE InfoFailure("Unknown error")
    ELSE InfoFailure("HTTP " \o ToString(r.status))

userInfoFixed == <<provider_config, account_config, response,
                   check_in_result, cdk_generator, topup_results,
                   topup_events, cookies, origin, user_cookies, signin_st,
                   signin_ret, runVars, browser_open, results, methVars,
                   histVars, main_report, mainVars, callback_response,
                   cf_wait, resVars>>

\* The request is made; an exception of session.get is caught on line 721.
GetUserInfoRequest ==
    /\ pc = "info_call"
    /\ \/ /\ info_response' \in InfoResponses
          /\ pc' = "info_resolve"
          /\ UNCHANGED user_info
       \/ /\ user_info' = InfoFailure("Failed to get user info")
          /\ pc' = "info_returned"
          /\ UNCHANGED info_response
    /\ UNCHANGED userInfoFixed

GetUserInfoReturn ==
    /\ pc = "info_resolve"
    /\ user_info' = get_user_info(info_response)
    /\ pc' = "info_returned"
    /\ UNCHANGED <<userInfoFixed, info_response>>

InitUserInfo ==
    /\ pc = "info_call"
    /\ ExecuteIdle
    /\ MainIdle
    /\ UserInfoIdle
    /\ callback_response = NoCallback
    /\ cf_wait = NoCfWait
    /\ ResIdle

NextUserInfo ==
    \/ GetUserInfoRequest
    \/ GetUserInfoReturn

SpecUserInfo == InitUserInfo /\ [][NextUserInfo]_vars

\* The raw quota of the response get_user_info resolved (0 when absent).
RawQuota == GetOr(info_response.data, "quota", 0)
InfoSucceeded == pc = "info_returned" /\ user_info.success

\* C31: a raw quota q of a user-info response is displayed as q / 500000
\* rounded to 2 decimals (the displayed amount is a nearest hundredth of
\* q / 500000 and is printed as that number); a quota of 1000000000 is
\* displayed as $2000.0.
C31_QuotaDisplayed ==
    InfoSucceeded =>
       /\ 2 * (RawQuota - user_info.quota * (QuotaDivisor \div 100))
             <= QuotaDivisor \div 100
       /\ 2 * (user_info.quota * (QuotaDivisor \div 100) - RawQuota)
             <= QuotaDivisor \div 100
       /\ user_info.display[1] =
             "Current balance: $" \o FloatStr(user_info.quota)
       /\ (RawQuota = 1000000000 =>
             user_info.display[1] = "Current balance: $2000.0")

C31_Witness ==
    /\ InfoSucceeded
    /\ RawQuota = 1000000000
    /\ user_info.display[1] = "Current balance: $2000.0"

\* ---------------------------------------------- the OAuth code exchange
\* check_in_with_github, lines 1130-1183, from the return of a sign-in
\* that gave a code and a state, with the response of the callback kept.
callbackFixed == <<provider_config, account_config, response,
                   check_in_result, cdk_generator, topup_results,
                   topup_events, cookies, origin, user_cookies, signin_st,
                   signin_ret, mainVars, info_response, user_info, cf_wait,
                   resVars, bypass_cookies, browser_headers, random_ua,
                   common_headers, bypass_outcome, browser_open, main_report,
                   results, caller, idx>>

CallbackExchange ==
    /\ pc = "oa_callback"
    /\ SendProvider
    /\ m_log' = Append(m_log, "callback")
    /\ \E r \in CallbackReplies :
         /\ callback_response' = r
         /\ CallbackOutcome(r)
    /\ UNCHANGED <<callbackFixed, m_headers, topup_count, oauthRet>>

\* The states in which OAuthSignin leaves a GitHub method whose sign-in
\* gave a code and a state: no bypass needed, random User-Agent, with or
\* without fingerprint headers from the sign-in.
InitCallback ==
    /\ pc = "oa_callback"
    /\ provider_config \in {p \in ProviderConfigs : p.bypass_method = "none"}
    /\ account_config = [cookies |-> "none", api_user |-> FALSE,
                         github |-> 1, linux_do |-> 0]
    /\ caller = "github"
    /\ idx = 0
    /\ bypass_cookies = "empty"
    /\ browser_headers = NoHeaders
    /\ bypass_outcome = "not_required"
    /\ browser_open = 0
    /\ results = <<>>
    /\ \E ua \in RandomUAs :
         /\ random_ua = ua
         /\ common_headers = BuildCommonHeaders(NoHeaders, ua)
    /\ oauthRet \in SigninHeaders("code_state")
    /\ m_headers = UpdateHeaders(common_headers, oauthRet)
    /\ m_log = <<IF provider_config.github_client_id
                 THEN "client_id_config" ELSE "client_id_discovery",
                 "auth_state", "signin">>
    /\ m_ret = NoRet
    /\ topup_count = 0
    /\ lastReq = NoReq
    /\ main_report = NoReport
    /\ response = NoResponse
    /\ check_in_result = NoResult
    /\ cdk_generator = NoGenerator
    /\ topup_results = NoResult
    /\ topup_events = <<>>
    /\ cookies = <<>>
    /\ origin = NoOrigin
    /\ user_cookies = EmptyDict
    /\ signin_st = NoSignin
    /\ signin_ret = NoSigninRet
    /\ MainIdle
    /\ AuxIdle

NextCallback ==
    \/ CallbackExchange
    \/ CicBegin
    \/ CicStatus
    \/ CicCheckIn
    \/ CicStatusAgain
    \/ CicCdk
    \/ CicTopup
    \/ CicUserInfo

SpecCallback == InitCallback /\ [][NextCallback]_vars

\* The callback answered HTTP 200 with a JSON body that reports success
\* and carries a non-empty user id.
GoodReply(r) ==
    /\ ~r.raised
    /\ r.status = 200
    /\ r.is_json
    /\ r.success
    /\ ~r.data.null
    /\ Has(r.data.obj, "id")
    /\ r.data.obj["id"] # 0

InBootstrap ==
    pc \in {"cic_begin", "cic_status", "cic_check_in", "cic_status_again",
            "cic_cdk", "cic_topup", "cic_user_info"}

\* One request to the callback endpoint; the session bootstrap and its
\* requests only after a good reply; otherwise the method has failed with
\* an error detail and sent nothing more.
ExchangeThenBootstrap ==
    /\ Cardinality(LogIdx("callback")) = (IF pc = "oa_callback" THEN 0 ELSE 1)
    /\ (InBootstrap \/ BootstrapIdx # {}) => GoodReply(callback_response)
    /\ (pc # "oa_callback" /\ ~GoodReply(callback_response))
         => ( /\ pc = "m_return"
              /\ m_ret = Fail("error")
              /\ BootstrapIdx = {}
              /\ m_log[Len(m_log)] = "callback" )

\* The exchange itself: one GET to the provider with the method's headers,
\* then the bootstrap exactly for a good reply.
ExchangeStep ==
    pc = "oa_callback"
    => ( /\ lastReq' = Req("provider", m_headers)
         /\ (pc' = "cic_begin") <=> GoodReply(callback_response')
         /\ pc' \in {"cic_begin", "m_return"} )

\* C32: in the code-exchange branch the caller issues one GET to the
\* provider's callback endpoint and invokes the session bootstrap only if
\* the response is HTTP 200 with a successful JSON body carrying a
\* non-empty user id; in every other case the method fails with an error
\* detail and no check-in, top-up or user-info request is made.
C32_CodeExchange ==
    []ExchangeThenBootstrap /\ [][ExchangeStep]_vars

C32_Witness ==
    /\ pc = "m_return"
    /\ ~callback_response.raised
    /\ callback_response.status = 200
    /\ callback_response.success
    /\ ~callback_response.data.null
    /\ GetOr(callback_response.data.obj, "id", 0) = 0
    /\ m_ret = Fail("error")
    /\ m_log[Len(m_log)] = "callback"

\* -------------------------------------- wait_for_cf_clearance_manually
\* utils/get_cf_clearance.py, lines 136-186, as get_cf_clearance calls it
\* (lines 95 and 99): with the default max_wait_time and check_interval.
MaxWaitTime == 60000
CheckInterval == 2000

\* What browser.cookies() can return: cookies of the context, by name and
\* value; two cookies of one name belong to different sites.
JarCookies ==
    [name : {"cf_clearance", "__cf_bm"}, value : {"", "token"}]
CookieJars ==
    {<<>>} \cup {<<c>> : c \in JarCookies}
    \cup {<<c, d>> : c \in JarCookies, d \in JarCookies}

\* The list holds a cf_clearance cookie with a non-empty value.
Observes(jar) ==
    \E i \in 1..Len(jar) :
       jar[i].name = "cf_clearance" /\ jar[i].value # ""

\* A search that goes on after a cookie of the name.
AnyNamed(jar, name) ==
    IF \E i \in 1..Len(jar) : jar[i].name = name /\ jar[i].value # ""
    THEN "token" ELSE ""

\* lines 166-171: the value of the first cookie of the name ("" for None).
FirstNamed(jar, name) ==
    LET named == {i \in 1..Len(jar) : jar[i].name = name}
    IN IF named = {} THEN ""
       ELSE jar[CHOOSE i \in named : \A j \in named : i <= j].value

cfWaitFixed == <<provider_config, account_config, response, check_in_result,
                 cdk_generator, topup_results, topup_events, cookies, origin,
                 user_cookies, signin_st, signin_ret, runVars, browser_open,
                 results, methVars, histVars, main_report, mainVars,
                 info_response, user_info, callback_response, resVars>>

\* lines 164-183: one pass of the loop.  browser.cookies(), page.title()
\* and page.content() can raise; nothing in the function catches that.
CfWaitPoll ==
    /\ pc = "cfw_loop"
    /\ cf_wait.elapsed_time < MaxWaitTime
    /\ \/ \E jar \in CookieJars, challenge \in BOOLEAN :
            LET cf_clearance == FirstNamed(jar, "cf_clearance")
                polled == [cf_wait EXCEPT
                             !.polls = @ + 1, !.cookies = jar,
                             !.challenge = challenge,
                             !.seen = IF Observes(jar) THEN @ + 1 ELSE @]
            IN IF cf_clearance # ""
               THEN /\ cf_wait' = [polled EXCEPT !.ret = "True"]
                    /\ pc' = "cfw_returned"
               ELSE /\ cf_wait' = [polled EXCEPT
                                     !.elapsed_time = @ + CheckInterval]
                    /\ pc' = "cfw_loop"
       \/ /\ cf_wait' = [cf_wait EXCEPT !.polls = @ + 1, !.ret = "raised"]
          /\ pc' = "cfw_returned"
    /\ UNCHANGED cfWaitFixed

\* lines 185-186: the bound is reached.
CfWaitTimeout ==
    /\ pc = "cfw_loop"
    /\ cf_wait.elapsed_time >= MaxWaitTime
    /\ cf_wait' = [cf_wait EXCEPT !.ret = "False"]
    /\ pc' = "cfw_returned"
    /\ UNCHANGED cfWaitFixed

InitCfWait ==
    /\ pc = "cfw_loop"
    /\ ExecuteIdle
    /\ MainIdle
    /\ UserInfoIdle
    /\ callback_response = NoCallback
    /\ cf_wait = NoCfWait
    /\ ResIdle

NextCfWait ==
    \/ CfWaitPoll
    \/ CfWaitTimeout

SpecCfWait ==
    InitCfWait /\ [][NextCfWait]_vars /\ WF_vars(NextCfWait)

MaxPolls == MaxWaitTime \div CheckInterval
CfWaitEnded == cf_wait.ret # "none"

\* C33 as stated: at most max_wait_time / check_interval polls; True at the
\* first poll that observes a cf_clearance cookie with a non-empty value;
\* False exactly when no poll within the bound observed one.
C33_TrueAtFirstObservation ==
    /\ cf_wait.polls <= MaxPolls
    /\ cf_wait.seen > 0 => (cf_wait.ret = "True" /\ cf_wait.seen = 1)
    /\ cf_wait.ret = "True" => Observes(cf_wait.cookies)
    /\ cf_wait.ret = "False" => (cf_wait.seen = 0 /\ cf_wait.polls = MaxPolls)

\* The first cookie named cf_clearance in the list has a non-empty value.
LeadingClearance(jar) ==
    \E i \in 1..Len(jar) :
       /\ jar[i].name = "cf_clearance"
       /\ jar[i].value # ""
       /\ \A j \in 1..(i - 1) : jar[j].name # "cf_clearance"

\* What the polls and the result always satisfy, with the cookie the loop
\* looks at: the first one named cf_clearance.
PollsBounded ==
    /\ cf_wait.polls <= MaxPolls
    /\ cf_wait.elapsed_time <= MaxWaitTime
    /\ cf_wait.ret = "True" => LeadingClearance(cf_wait.cookies)
    /\ (cf_wait.ret \in {"none", "False"} /\ cf_wait.polls > 0)
         => ~LeadingClearance(cf_wait.cookies)
    /\ cf_wait.ret = "False" => cf_wait.polls = MaxPolls

\* A poll that does not raise returns True exactly when the first cookie
\* named cf_clearance has a value, whatever the page shows, and goes on
\* otherwise; the bound reached, False is returned.
PollStep ==
    /\ (cf_wait'.polls = cf_wait.polls + 1 /\ cf_wait'.ret # "raised")
         => ( /\ cf_wait'.ret \in {"True", "none"}
              /\ (cf_wait'.ret = "True") <=>
                   LeadingClearance(cf_wait'.cookies) )
    /\ (cf_wait.polls = MaxPolls /\ cf_wait.ret = "none")
         => cf_wait'.ret = "False"

\* C33, for the cookie the loop looks at: the polling always terminates
\* after at most max_wait_time / check_interval polls; it returns True at
\* the first poll in which the first cookie named cf_clearance has a
\* non-empty value, and False exactly when that happened in no poll within
\* the bound, whether or not the challenge is still on the page.
C33_PollingTerminates ==
    /\ []PollsBounded
    /\ [][PollStep]_vars
    /\ <>CfWaitEnded

C33_Witness ==
    /\ cf_wait.ret = "True"
    /\ cf_wait.polls = MaxPolls
    /\ cf_wait.challenge

\* ------------------------------------------ execute_topup: the result record
\* The submissions made so far, in order.
IsTopupEvent(e) == e.op = "topup"
Submissions == SelectSeq(topup_events, IsTopupEvent)

FailedSubmission(e) == ~topup(e.reply, e.key)["success"]

\* Only the last submission can be a failed one.
NoSubmissionAfterFailure ==
    \A i \in 1..Len(Submissions) :
        FailedSubmission(Submissions[i]) => i = Len(Submissions)

ShortOfCount == topup_results.topup_count - topup_results.topup_success_count

\* C36: whatever the producer yields and the top-up endpoint answers, the
\* result of execute_topup has 0 <= topup_success_count <= topup_count; with
\* success it has topup_success_count = topup_count and an empty error;
\* without success it has a non-empty error and is short of topup_count by
\* 0 (the producer reported a stop) or by 1 (the last submission failed);
\* and no submission follows a failed one, the loop being left at once.
C36_TopupResultInvariants ==
    /\ topup_results.topup_success_count >= 0
    /\ topup_results.topup_success_count <= topup_results.topup_count
    /\ topup_results.topup_count = Len(Submissions)
    /\ NoSubmissionAfterFailure
    /\ topup_results.success =>
          /\ ShortOfCount = 0
          /\ topup_results.error = <<>>
    /\ ~topup_results.success =>
          /\ topup_results.error # <<>>
          /\ ShortOfCount \in {0, 1}
          /\ (ShortOfCount = 1) <=>
                (/\ Len(Submissions) > 0
                 /\ FailedSubmission(Submissions[Len(Submissions)]))
          /\ pc # "topup_loop"

\* A second submission failed after a first that succeeded, and a stop
\* reported by the producer after a submission.
C36_Witness ==
    /\ TopupReturned
    /\ ~topup_results.success
    /\ topup_results.topup_count = 2
    /\ ShortOfCount = 1
    /\ cdk_generator.consumed < Len(cdk_generator.items)

\* ------------------------------------ execute: what the methods leave alone
\* From the start of the first method on, a step leaves the bypass cookies
\* and the header set held by execute as they were.
SharedStateKept ==
    MethodStarted =>
        /\ common_headers' = common_headers
        /\ bypass_cookies' = bypass_cookies

\* A method starts from a copy of the header set held by execute.
StartsFromShared ==
    (/\ pc \in {"cookies_block", "github_block", "linuxdo_block"}
     /\ pc' \in {"cic_begin", "oa_begin"})
        => m_headers' = common_headers

\* C37: no authentication method changes what the methods share: from the
\* start of the first method on, every step (the return of a method with
\* success, failure or exception included) leaves the bypass cookies and the
\* header set held by execute as they were, and a method starts from a copy
\* of exactly that header set.
C37_SharedStateUnchanged == [][SharedStateKept /\ StartsFromShared]_vars

\* A later method has replaced the User-Agent in its own header set with the
\* one its sign-in captured, after an earlier method returned.
C37_Witness ==
    /\ Len(results) > 0
    /\ caller \in {"github", "linux.do"}
    /\ oauthRet # NoHeaders
    /\ m_headers # common_headers
    /\ bypass_cookies # "empty"

\* ------------------------------------------- the client id of the sign-in
clientIdFixed == <<provider_config, account_config, response,
                   check_in_result, cdk_generator, topup_results,
                   topup_events, cookies, origin, user_cookies, signin_st,
                   signin_ret, mainVars, info_response, user_info,
                   callback_response, cf_wait, proxy_config, profile,
                   user_agent, sessions, bypass_cookies, browser_headers,
                   random_ua, common_headers, bypass_outcome, browser_open,
                   main_report, results, caller, idx>>

\* lines 1067-1082: OAuthClientId, keeping client_id_result.
ClientIdLookup ==
    /\ pc = "oa_client_id"
    /\ IF ConfiguredClientId
       THEN /\ pc' = "oa_auth_state"
            /\ m_log' = Append(m_log, "client_id_config")
            /\ client_id_result' =
                  [NoClientId EXCEPT !.success = TRUE,
                                     !.client_id = "configured"]
            /\ UNCHANGED <<m_ret, lastReq>>
       ELSE /\ SendProvider
            /\ m_log' = Append(m_log, "client_id_discovery")
            /\ \E r \in StatusReplies :
                 LET res == get_auth_client_id(r) IN
                 /\ client_id_result' =
                       [NoClientId EXCEPT !.asked = TRUE,
                                          !.success = res.success,
                                          !.client_id = res.client_id]
                 /\ ClientIdOutcome(res)
    /\ UNCHANGED <<clientIdFixed, m_headers, topup_count, oauthRet>>

\* lines 1109-1114: signin(client_id=client_id_result["client_id"], ...),
\* with the branch on what it returned (OAuthSignin), keeping the argument.
SigninCall ==
    /\ SigninBranch
    /\ client_id_result' =
          [client_id_result EXCEPT !.passed = client_id_result.client_id]
    /\ UNCHANGED <<provider_config, account_config, response,
                   check_in_result, cdk_generator, topup_results,
                   topup_events, cookies, origin, user_cookies, signin_st,
                   signin_ret, mainVars, info_response, user_info,
                   callback_response, cf_wait, proxy_config, profile,
                   user_agent, sessions>>

\* An OAuth method of an account at a provider that needs no bypass, at the
\* point where it looks for the client id.
InitClientId ==
    /\ pc = "oa_client_id"
    /\ provider_config \in {p \in ProviderConfigs : p.bypass_method = "none"}
    /\ caller \in {"github", "linux.do"}
    /\ account_config = [cookies |-> "none", api_user |-> FALSE,
                         github |-> IF caller = "github" THEN 1 ELSE 0,
                         linux_do |-> IF caller = "github" THEN 0 ELSE 1]
    /\ idx = 0
    /\ bypass_cookies = "empty"
    /\ browser_headers = NoHeaders
    /\ bypass_outcome = "not_required"
    /\ browser_open = 0
    /\ results = <<>>
    /\ \E ua \in RandomUAs :
         /\ random_ua = ua
         /\ common_headers = BuildCommonHeaders(NoHeaders, ua)
    /\ oauthRet = NoHeaders
    /\ m_headers = CopyHeaders(common_headers)
    /\ m_log = <<>>
    /\ m_ret = NoRet
    /\ topup_count = 0
    /\ lastReq = NoReq
    /\ main_report = NoReport
    /\ response = NoResponse
    /\ check_in_result = NoResult
    /\ cdk_generator = NoGenerator
    /\ topup_results = NoResult
    /\ topup_events = <<>>
    /\ cookies = <<>>
    /\ origin = NoOrigin
    /\ user_cookies = EmptyDict
    /\ signin_st = NoSignin
    /\ signin_ret = NoSigninRet
    /\ MainIdle
    /\ AuxIdle

NextClientId ==
    \/ ClientIdLookup
    \/ OAuthAuthState
    \/ SigninCall

SpecClientId == InitClientId /\ [][NextClientId]_vars

SigninInvoked == client_id_result.passed # "none"

\* C39: the sign-in is never invoked with an empty client id: whenever the
\* method calls signin, the client_id argument is a non-empty string, and a
\* discovery that reports success has found a non-empty id.
C39_ClientIdNeverEmpty ==
    /\ SigninInvoked => client_id_result.passed # ""
    /\ client_id_result.success => client_id_result.client_id # ""

\* What holds of the code: the sign-in is invoked only after a configured
\* client id or a discovery that reported success, with the id of that
\* result, which is empty exactly when the status carried none.
ClientIdPassedOn ==
    SigninInvoked =>
        /\ client_id_result.success
        /\ client_id_result.passed = client_id_result.client_id
        /\ ~client_id_result.asked => client_id_result.passed # ""

\* --------------------------- the browsers and HTTP sessions of an account run
\* account_config.proxy and the global proxy of the PROXY variable, each set
\* or not.
ProxyConfigs == [account : {"none", "acct"}, global : {"none", "glob"}]

\* __init__, line 50, and `account_config.proxy or
\* account_config.get("global_proxy")` of topup.py 41, get_check_in_status.py
\* 45 and get_cdk.py 49, 240, 389: the account's proxy, else the global one.
ResolvedProxy(pcfg) ==
    IF pcfg.account # "none" THEN pcfg.account ELSE pcfg.global

\* proxy_resolve, http_utils.py 14-42: None for no proxy, else the URL of
\* the proxy's server.
proxy_resolve(p) == IF p = "none" THEN "none" ELSE "url:" \o p

\* What a run reads of provider and account: the bypass method, which
\* methods are configured, whether the check-in is posted with a status
\* query around it, and the reward-code source (none, a plain generator as
\* get_runawaytime_cdk / get_x666_cdk, or the async generator get_b4u_cdk).
\* A reward-code source is a function, which only the built-in profiles of
\* runawaytime, x666 and b4u carry (config.py 429-556): all three with the
\* cf_clearance bypass, b4u without a check-in of its own.
Profiles ==
    { f \in [bypass_method : {"none", "waf_cookies", "cf_clearance"},
             cookies : BOOLEAN, github : BOOLEAN,
             check_in_status : BOOLEAN,
             get_cdk : {"none", "sync", "async"}] :
        /\ f.cookies \/ f.github
        /\ f.get_cdk # "none" => f.bypass_method = "cf_clearance"
        /\ f.get_cdk = "async" => ~f.check_in_status }

UA(family, version) == [family |-> family, version |-> version]

\* browser_utils.py 95-104: Chrome/138 or Chrome/137, and Firefox/134; one
\* of each family.
RandomUserAgents == {UA("Chrome", 138), UA("Firefox", 134)}

\* navigator.userAgent of a browser session, as get_browser_headers reads it.
BrowserUserAgents == {UA("Firefox", 135), UA("Chrome", 142)}

\* The default of the impersonate parameter: checkin.py 938, topup.py 24,
\* get_check_in_status.py 27 and 103.
DefaultImpersonate == "firefox135"

\* get_curl_cffi_impersonate, get_headers.py 10-113, for the Firefox and
\* Chrome families; anything else is "firefox135".
get_curl_cffi_impersonate(ua) ==
    IF ua.family = "Firefox"
    THEN IF ua.version >= 144 THEN "firefox144"
         ELSE IF ua.version >= 135 THEN "firefox135"
         ELSE "firefox133"
    ELSE IF ua.family = "Chrome"
    THEN IF ua.version >= 142 THEN "chrome142"
         ELSE IF ua.version >= 136 THEN "chrome136"
         ELSE IF ua.version >= 133 THEN "chrome133a"
         ELSE IF ua.version >= 131 THEN "chrome131"
         ELSE IF ua.version >= 124 THEN "chrome124"
         ELSE "chrome123"
    ELSE "firefox135"

\* One browser (AsyncCamoufox) or HTTP session (curl_requests.Session): who
\* opened it, with which proxy and impersonation profile, the User-Agents of
\* the requests sent on it, and whether it is still open.
Session(kind, owner, proxy, impersonate) ==
    [kind |-> kind, owner |-> owner, proxy |-> proxy,
     impersonate |-> impersonate, sent |-> {}, open |-> TRUE]

Opened(ss, kind, owner, proxy, impersonate) ==
    Append(ss, Session(kind, owner, proxy, impersonate))

\* The session of that owner opened last and still open.
LastOpen(ss, owner) ==
    CHOOSE i \in 1..Len(ss) :
        /\ ss[i].owner = owner
        /\ ss[i].open
        /\ \A j \in (i + 1)..Len(ss) : ~(ss[j].owner = owner /\ ss[j].open)

\* A browser whose exit leaves it running.
LeftRunning(ss, owner) == ss

\* session.close() in a finally block; the exit of `async with
\* AsyncCamoufox(...)`.
Closed(ss, owner) == [ss EXCEPT ![LastOpen(ss, owner)].open = FALSE]

\* A request on the session with the given User-Agent header.
Sent(ss, owner, ua) == [ss EXCEPT ![LastOpen(ss, owner)].sent = @ \cup {ua}]

\* The event loop runs the finalizer of an abandoned async generator: its
\* finally block closes the generator's session.
Finalized(ss) ==
    [i \in 1..Len(ss) |->
        IF ss[i].owner = "get_cdk" /\ ss[i].kind = "http"
        THEN [ss[i] EXCEPT !.open = FALSE] ELSE ss[i]]

OpenOnes(kind) ==
    {i \in 1..Len(sessions) : sessions[i].kind = kind /\ sessions[i].open}

resFixed == <<provider_config, account_config, response, check_in_result,
              cdk_generator, topup_results, topup_events, cookies, origin,
              user_cookies, signin_st, signin_ret, mainVars, info_response,
              user_info, callback_response, cf_wait, client_id_result,
              proxy_config, profile, runVars, browser_open, results, idx,
              m_headers, m_log, m_ret, topup_count, histVars, main_report>>

CamoufoxProxy == ResolvedProxy(proxy_config)
HttpProxy == proxy_resolve(ResolvedProxy(proxy_config))

\* execute, lines 1361-1395: the bypass phase starts its browser with
\* proxy=camoufox_proxy_config (checkin.py 74, get_cf_clearance.py 59), or
\* the start fails (a WAF failure leaves execute as an exception).
ResBypass ==
    /\ pc = "r_execute"
    /\ IF profile.bypass_method = "none"
       THEN pc' = "r_headers" /\ UNCHANGED sessions
       ELSE \/ /\ sessions' = Opened(sessions, "browser",
                                     profile.bypass_method, CamoufoxProxy,
                                     "none")
               /\ pc' = "r_bypass_open"
            \/ /\ pc' = IF profile.bypass_method = "waf_cookies"
                        THEN "r_return" ELSE "r_headers"
               /\ UNCHANGED sessions
    /\ UNCHANGED <<resFixed, caller, user_agent>>

\* The bypass browser is closed; a cf_clearance session may hand back the
\* browser's headers.
ResBypassClose ==
    /\ pc = "r_bypass_open"
    /\ sessions' = Closed(sessions, profile.bypass_method)
    /\ \E captured \in (IF profile.bypass_method = "cf_clearance"
                        THEN BrowserUserAgents \cup {NoUA} ELSE {NoUA}) :
         user_agent' = [user_agent EXCEPT !.common = captured]
    /\ pc' = "r_headers"
    /\ UNCHANGED <<resFixed, caller>>

\* lines 1399-1443: the User-Agent of common_headers.
ResHeaders ==
    /\ pc = "r_headers"
    /\ IF user_agent.common # NoUA
       THEN UNCHANGED user_agent
       ELSE \E rnd \in RandomUserAgents :
              user_agent' = [user_agent EXCEPT !.common = rnd]
    /\ pc' = "r_cookies_block"
    /\ UNCHANGED <<resFixed, caller, sessions>>

\* lines 1451-1467 and 951: check_in_with_cookies(all_cookies,
\* common_headers, api_user), without an impersonate argument.
ResCookies ==
    /\ pc = "r_cookies_block"
    /\ IF profile.cookies
       THEN /\ caller' = "cookies"
            /\ sessions' = Opened(sessions, "http", "check_in_with_cookies",
                                  HttpProxy, DefaultImpersonate)
            /\ user_agent' = [user_agent EXCEPT !.updated = user_agent.common]
            /\ pc' = "r_cic"
       ELSE /\ pc' = "r_github_block"
            /\ UNCHANGED <<caller, sessions, user_agent>>
    /\ UNCHANGED resFixed

\* lines 1478-1493 and 1050-1054: the profile is derived from the User-Agent
\* of common_headers.
ResGithub ==
    /\ pc = "r_github_block"
    /\ IF profile.github
       THEN /\ caller' = "github"
            /\ sessions' =
                 Opened(sessions, "http", "check_in_with_github", HttpProxy,
                        get_curl_cffi_impersonate(user_agent.common))
            /\ pc' = "r_oauth"
       ELSE /\ pc' = "r_return"
            /\ UNCHANGED <<caller, sessions>>
    /\ UNCHANGED <<resFixed, user_agent>>

\* lines 1067-1094: the client id and the auth state, requested with a copy
\* of common_headers.
ResOAuthRequests ==
    /\ pc = "r_oauth"
    /\ sessions' = Sent(sessions, "check_in_with_github", user_agent.common)
    /\ pc' \in {"r_signin", "r_method_end"}
    /\ UNCHANGED <<resFixed, caller, user_agent>>

\* sign_in_with_github.py 65-75: AsyncCamoufox is started without a proxy
\* argument.  Starting a browser suspends the coroutine, so the event loop
\* gets to finalize an abandoned async generator.
ResSigninOpen ==
    /\ pc = "r_signin"
    /\ sessions' = Opened(Finalized(sessions), "browser", "signin", "none",
                          "none")
    /\ pc' = "r_signin_open"
    /\ UNCHANGED <<resFixed, caller, user_agent>>

\* sign_in_with_github.py 394-396 and the exit of the context manager;
\* checkin.py 1116-1126 and 1139-1148: updated_headers.
ResSigninClose ==
    /\ pc = "r_signin_open"
    /\ sessions' = Closed(sessions, "signin")
    /\ \E captured \in BrowserUserAgents \cup {NoUA} :
         user_agent' =
            [user_agent EXCEPT !.updated = IF captured # NoUA THEN captured
                                            ELSE user_agent.common]
    /\ pc' \in {"r_cic_open", "r_callback", "r_method_end"}
    /\ UNCHANGED <<resFixed, caller>>

\* line 1150: session.get(callback_url, headers=updated_headers).
ResCallback ==
    /\ pc = "r_callback"
    /\ sessions' = Sent(sessions, "check_in_with_github", user_agent.updated)
    /\ pc' \in {"r_cic_open", "r_method_end"}
    /\ UNCHANGED <<resFixed, caller, user_agent>>

\* lines 1129 and 1170: check_in_with_cookies(merged_cookies,
\* updated_headers, api_user, impersonate), with the caller's profile.
ResCicOpen ==
    /\ pc = "r_cic_open"
    /\ sessions' =
         Opened(sessions, "http", "check_in_with_cookies", HttpProxy,
                sessions[LastOpen(sessions, "check_in_with_github")]
                    .impersonate)
    /\ pc' = "r_cic"
    /\ UNCHANGED <<resFixed, caller, user_agent>>

\* get_check_in_status.py 54-95: a session of its own, with the default
\* profile, closed in its finally block.
StatusQuery(ss, ua) ==
    Closed(Sent(Opened(ss, "http", "check_in_status", HttpProxy,
                       DefaultImpersonate),
                "check_in_status", ua),
           "check_in_status")

\* checkin.py 966-997: the status query and the check-in, when the provider
\* has them.
ResCheckIn ==
    /\ pc = "r_cic"
    /\ IF profile.check_in_status
       THEN \/ /\ sessions' = StatusQuery(sessions, user_agent.updated)
               /\ pc' = "r_topup"
            \/ /\ sessions' =
                    Sent(StatusQuery(sessions, user_agent.updated),
                         "check_in_with_cookies", user_agent.updated)
               /\ pc' \in {"r_topup", "r_cic_close"}
       ELSE pc' = "r_topup" /\ UNCHANGED sessions
    /\ UNCHANGED <<resFixed, caller, user_agent>>

\* checkin.py 999-1002 and 847; get_cdk.py 389-402: get_b4u_cdk first gets
\* a cf_clearance with a browser of its own.
ResGetCdk ==
    /\ pc = "r_topup"
    /\ CASE profile.get_cdk = "none" ->
              pc' = "r_user_info" /\ UNCHANGED sessions
         [] profile.get_cdk = "sync" ->
              pc' = "r_cdk_session" /\ UNCHANGED sessions
         [] OTHER ->
              /\ sessions' = Opened(Finalized(sessions), "browser",
                                    "get_cdk", CamoufoxProxy, "none")
              /\ pc' = "r_cdk_browser"
    /\ UNCHANGED <<resFixed, caller, user_agent>>

\* get_cf_clearance.py 132-133 and the exit of its context manager; without
\* a cf_clearance the generator yields a failure and ends (get_cdk.py 405).
ResCdkBrowserClose ==
    /\ pc = "r_cdk_browser"
    /\ sessions' = Closed(sessions, "get_cdk")
    /\ pc' \in {"r_cdk_session", "r_cic_close"}
    /\ UNCHANGED <<resFixed, caller, user_agent>>

\* get_cdk.py 53, 250 and 415: the generator's own session.
ResCdkSession ==
    /\ pc = "r_cdk_session"
    /\ sessions' = Opened(sessions, "http", "get_cdk", HttpProxy, "none")
    /\ pc' = "r_cdk_loop"
    /\ UNCHANGED <<resFixed, caller, user_agent>>

\* topup.py 53-118: a session of its own, with the default profile, closed
\* in its finally block.
TopupCall(ss, ua) ==
    Closed(Sent(Opened(ss, "http", "topup", HttpProxy, DefaultImpersonate),
                "topup", ua),
           "topup")

\* The submissions followed within one method.
MaxSubmissions == 1

TopupCalls ==
    Cardinality({i \in 1..Len(sessions) :
                   /\ sessions[i].owner = "topup"
                   /\ i > LastOpen(sessions, "check_in_with_cookies")})

\* A loop left by `break`: a plain generator is finalized when execute_topup
\* returns and drops it; an async generator is finalized by the event loop,
\* which does not run before the coroutine is suspended again.
Abandoned(ss, kind) ==
    IF kind = "sync" THEN Closed(ss, "get_cdk") ELSE ss

\* checkin.py 912-924 with process_cdk_result: the generator ends (its
\* finally block closes its session), yields a failure, or yields a code that
\* topup() submits.
ResCdkNext ==
    /\ pc = "r_cdk_loop"
    /\ \/ /\ sessions' = Closed(sessions, "get_cdk")
          /\ pc' = "r_user_info"
       \/ /\ sessions' = Abandoned(sessions, profile.get_cdk)
          /\ pc' = "r_cic_close"
       \/ /\ TopupCalls < MaxSubmissions
          /\ \/ /\ sessions' = TopupCall(sessions, user_agent.updated)
                /\ pc' = "r_cdk_loop"
             \/ /\ sessions' = Abandoned(TopupCall(sessions,
                                                   user_agent.updated),
                                         profile.get_cdk)
                /\ pc' = "r_cic_close"
    /\ UNCHANGED <<resFixed, caller, user_agent>>

\* checkin.py 1015: get_user_info(session, headers).
ResUserInfo ==
    /\ pc = "r_user_info"
    /\ sessions' = Sent(sessions, "check_in_with_cookies", user_agent.updated)
    /\ pc' = "r_cic_close"
    /\ UNCHANGED <<resFixed, caller, user_agent>>

\* checkin.py 1028-1029: the finally block of check_in_with_cookies.
ResCicClose ==
    /\ pc = "r_cic_close"
    /\ sessions' = Closed(sessions, "check_in_with_cookies")
    /\ pc' = "r_method_end"
    /\ UNCHANGED <<resFixed, caller, user_agent>>

\* checkin.py 1191-1192: the finally block of check_in_with_github; then the
\* next block of execute.
ResMethodEnd ==
    /\ pc = "r_method_end"
    /\ sessions' = IF caller = "github"
                   THEN Closed(sessions, "check_in_with_github")
                   ELSE sessions
    /\ pc' = IF caller = "cookies" THEN "r_github_block" ELSE "r_return"
    /\ caller' = "none"
    /\ UNCHANGED <<resFixed, user_agent>>

InitResources ==
    /\ pc = "r_execute"
    /\ ExecuteIdle
    /\ MainIdle
    /\ UserInfoIdle
    /\ callback_response = NoCallback
    /\ cf_wait = NoCfWait
    /\ client_id_result = NoClientId
    /\ proxy_config \in ProxyConfigs
    /\ profile \in Profiles
    /\ user_agent = NoUserAgent
    /\ sessions = <<>>

NextResources ==
    \/ ResBypass
    \/ ResBypassClose
    \/ ResHeaders
    \/ ResCookies
    \/ ResGithub
    \/ ResOAuthRequests
    \/ ResSigninOpen
    \/ ResSigninClose
    \/ ResCallback
    \/ ResCicOpen
    \/ ResCheckIn
    \/ ResGetCdk
    \/ ResCdkBrowserClose
    \/ ResCdkSession
    \/ ResCdkNext
    \/ ResUserInfo
    \/ ResCicClose
    \/ ResMethodEnd

SpecResources == InitResources /\ [][NextResources]_vars

BrowserPhases == {"r_bypass_open", "r_signin_open", "r_cdk_browser"}
RunReturned == pc = "r_return"

\* C34: browser-driven phases never overlap: at every point of a run at
\* most one browser is open, and the bypass phase, the OAuth sign-in and the
\* cf_clearance acquisition of a reward-code source have each closed their
\* browser before the next phase or the next method starts (outside a
\* browser phase no browser is open).
C34_BrowsersNeverOverlap ==
    /\ Cardinality(OpenOnes("browser")) <= 1
    /\ pc \notin BrowserPhases => OpenOnes("browser") = {}
    /\ pc \in BrowserPhases => Cardinality(OpenOnes("browser")) = 1

\* The third browser phase of a run is open after the bypass browser and
\* the sign-in browser were closed.
C34_Witness ==
    /\ pc = "r_cdk_browser"
    /\ \E i, j, k \in 1..Len(sessions) :
         /\ i < j /\ j < k
         /\ sessions[i].owner = "cf_clearance" /\ ~sessions[i].open
         /\ sessions[j].owner = "signin" /\ ~sessions[j].open
         /\ sessions[k].owner = "get_cdk" /\ sessions[k].open
         /\ sessions[k].kind = "browser"

\* The operations that open an HTTP session for an authentication method.
MethodOwners ==
    {"check_in_with_cookies", "check_in_with_github", "check_in_status",
     "topup"}

BetweenMethods == pc \in {"r_cookies_block", "r_github_block", "r_return"}

\* What holds of the sessions of the four operations themselves.
OwnSessionsClosed ==
    BetweenMethods =>
        \A i \in OpenOnes("http") : sessions[i].owner \notin MethodOwners

\* C35: every HTTP session opened for a method by check_in_with_cookies,
\* check_in_with_github, topup or the status query is closed on every exit
\* path of the operation that opened it, and when execute returns no HTTP
\* session opened during the run is still open.
C35_SessionsClosed ==
    /\ OwnSessionsClosed
    /\ RunReturned => OpenOnes("http") = {}

\* C38: every direct-HTTP session of a run (cookie method, OAuth method,
\* status query, top-up) has the impersonation profile that
\* get_curl_cffi_impersonate maps from the User-Agent sent in the headers of
\* its requests.
C38_ProfileMatchesUserAgent ==
    \A i \in 1..Len(sessions) :
        sessions[i].owner \in MethodOwners =>
            \A ua \in sessions[i].sent :
                sessions[i].impersonate = get_curl_cffi_impersonate(ua)

\* C40: every browser and every HTTP session of a run uses the account's
\* resolved proxy: the account's own when configured, else the global one,
\* and none only when none is resolved.
C40_ResolvedProxyEverywhere ==
    \A i \in 1..Len(sessions) :
        sessions[i].proxy = IF sessions[i].kind = "browser"
                            THEN CamoufoxProxy ELSE HttpProxy

\* What holds of the proxies: every session but the sign-in browser.
ProxyExceptSignin ==
    \A i \in 1..Len(sessions) :
        sessions[i].owner # "signin" =>
            sessions[i].proxy = IF sessions[i].kind = "browser"
                                THEN CamoufoxProxy ELSE HttpProxy

====
